---- MODULE Spec2Model ----
(***************************************************************************)
(* State-machine model of the SwiftDevBot modules: the handlers of         *)
(* code_analyzer, gemini_ai, youtube_downloader and the module template    *)
(* (Sample.py), with the SQLite tables they share through kernel_data.     *)
(* A table is a set of rows (records); a handler is split into steps at    *)
(* the awaited database statements, so handlers of several tasks           *)
(* interleave exactly where the event loop lets them.                      *)
(***************************************************************************)
EXTENDS Integers, Sequences, FiniteSets, TLC

\* ------------------------------------------------------------------ bounds
MaxClock == 1          \* seconds the wall clock may advance (code_analyzer)
MaxInserts == 11       \* INSERTs into analysis_history in one run
MaxClearInserts == 3   \* the same, in the runs that also clear the history
NumTasks == 2          \* handler coroutines that may be in flight at once
MaxRateClock == 5      \* seconds the wall clock may advance (gemini_ai)
MaxQuestions == 11     \* distinct questions put to ask_gemini
MaxAdminInserts == 2     \* rows put into a table before it is cleared

\* ------------------------------------------------------- program constants
limit == 10            \* save_analysis: rows kept per chat
history_limit == 5     \* get_analysis_history: LIMIT 5

Chats == {555, 777}
Users == {1, 2}
admin_ids == {1}       \* kernel_data["admin_ids"]
Tasks == 1..NumTasks

VARIABLES
    clock,              \* wall clock, in seconds (CURRENT_TIMESTAMP)
    analysis_history,   \* table: rows [id, chat_id, timestamp]
    an_seq,             \* sqlite_sequence of analysis_history (AUTOINCREMENT)
    an_pc,              \* per task: the statement the handler is suspended at
    an_chat,            \* per task: chat_id / target_chat_id of the call
    an_count,           \* per task: count_to_delete read by clear_analysis_history
    an_user,            \* per task: message.from_user.id of the command
    an_reply,           \* the last message.reply of a code_analyzer handler
    g_init,             \* gemini_ai init_db: CREATE TABLE statements executed
    gemini_cache,       \* table: rows [question, answer]
    gemini_conversations, \* table: rows [id, chat_id, question]
    g_conv_seq,         \* sqlite_sequence of gemini_conversations
    gemini_settings,    \* table: rows [chat_id, mode]
    gemini_rate_limit,  \* table: rows [chat_id, last_request]
    secret,             \* config["module_secrets"]["gemini_ai"]
    fernet,             \* kernel_data["encryption_key"], "" when there is none
    fsm,                \* FSM state of each (chat, user)
    g_task,             \* per task: the locals of its gemini_ai handler
    g_reply,            \* the last reply of a gemini_ai handler
    yt_table,           \* youtube_downloader_config exists in sqlite_master
    youtube_downloader_config, \* table: rows [user_id, default_format, default_quality]
    yt_task,            \* per task: the locals of its youtube_downloader coroutine
    yt_result,          \* what the last get_/set_user_config call returned or raised
    yt_reply,           \* the last message.answer of a youtube_downloader handler
    sample_table,       \* Sample: <module>_config exists
    sample_config,      \* Sample table: rows [user_id, example_user_param]
    sample_result,      \* Sample: what the last get_/set_user_config call returned
    sample_reply,       \* Sample: the last message.answer
    modules_dir,        \* module_manager: paths under modules/, <<name>> a directory
    mm_task,            \* module_manager: the locals of _install_module
    mm_result,          \* module_manager: what the last _install_module returned
    download_dir,       \* downloaders: the files in data/youtube_downloads
    dl_task,            \* downloaders: the locals of process_download
    dl_reply,           \* downloaders: what process_download last sent to the chat
    w_config,           \* weather: the module enabled, the OpenWeatherMap key
    w_task,             \* weather: the locals of process_weather_message
    w_reply,            \* weather: the last message of a weather handler
    kernel_data,        \* what the kernel hands to setup: db, dp, cryptography
    dispatcher,         \* the routers included in the dispatcher
    setup_result,       \* per module: how its setup ended
    cache,              \* infosystem: cache of the system metrics
    LOGS_CACHE,         \* infosystem: the cached log lines
    LOG_FILE,           \* infosystem: the log file on disk
    loop,               \* infosystem: where each background loop is
    repositories,       \* module_manager: data/repositories.json
    mm_op,              \* module_manager: the operation its last handler ran
    fsm_data,           \* per (chat, user): repo_name kept by state.update_data
    max_quality,        \* downloaders: max_quality of config.json
    sel                 \* downloaders: what process_selection did last

anVars == <<analysis_history, an_seq, an_pc, an_chat, an_count, an_user, an_reply>>
gTables == <<gemini_cache, gemini_conversations, g_conv_seq, gemini_settings,
             gemini_rate_limit>>
gVars == <<g_init, gTables, secret, fernet, g_task, g_reply>>
ytVars == <<yt_table, youtube_downloader_config, yt_task, yt_result, yt_reply>>
sampleVars == <<sample_table, sample_config, sample_result, sample_reply>>
mmVars == <<modules_dir, mm_task, mm_result>>
dlVars == <<download_dir, dl_task, dl_reply>>
wVars == <<w_config, w_task, w_reply>>
loadVars == <<kernel_data, dispatcher, setup_result>>
infoVars == <<cache, LOGS_CACHE, LOG_FILE, loop>>
cbVars == <<repositories, mm_op, fsm_data>>
selVars == <<max_quality, sel>>
moreVars == <<mmVars, dlVars, wVars, loadVars, infoVars, cbVars, selVars>>
vars == <<clock, fsm, anVars, gVars, ytVars, sampleVars, moreVars>>
notAn == <<fsm, gVars, ytVars, sampleVars, moreVars>>
notG == <<anVars, ytVars, sampleVars, moreVars>>
notYt == <<anVars, gVars, sampleVars, moreVars>>
notSample == <<anVars, gVars, ytVars, moreVars>>
dbVars == <<clock, fsm, anVars, gVars, ytVars, sampleVars>>
notMm == <<dbVars, dlVars, wVars, loadVars, infoVars, cbVars, selVars>>
notDl == <<dbVars, mmVars, wVars, loadVars, infoVars, cbVars, selVars>>
notW == <<clock, anVars, gVars, ytVars, sampleVars, mmVars, dlVars, loadVars, infoVars,
          cbVars, selVars>>
notLoad == <<clock, fsm, anVars, gVars, sampleVars, mmVars, dlVars, wVars, infoVars,
             cbVars, selVars>>
notInfo == <<fsm, anVars, gVars, ytVars, sampleVars, mmVars, dlVars, wVars, loadVars,
             cbVars, selVars>>
notCb == <<clock, anVars, gVars, ytVars, sampleVars, dlVars, wVars, loadVars, infoVars,
           selVars>>
notSel == <<clock, fsm, anVars, gVars, sampleVars, mmVars, wVars, loadVars, infoVars,
            cbVars>>

\* ------------------------------------------------------------ SQL helpers
\* ORDER BY timestamp DESC: SQLite's sorter keeps rows of equal timestamp in
\* scan order, which is ascending rowid.
Before(r, s) ==
    \/ r.timestamp > s.timestamp
    \/ r.timestamp = s.timestamp /\ r.id < s.id

\* ORDER BY timestamp DESC LIMIT n, as a sequence of rows.
RECURSIVE OrderByTimestampDesc(_, _)
OrderByTimestampDesc(rows, n) ==
    IF rows = {} \/ n = 0 THEN <<>>
    ELSE LET first == CHOOSE r \in rows : \A s \in rows \ {r} : Before(r, s)
         IN  <<first>> \o OrderByTimestampDesc(rows \ {first}, n - 1)

Range(seq) == {seq[i] : i \in 1..Len(seq)}

RowsOf(chat) == {r \in analysis_history : r.chat_id = chat}

\* -------------------------------------------------- code_analyzer/module.py
\* save_analysis, first statement: INSERT INTO analysis_history.
SaveInsert(t, chat) ==
    /\ an_pc[t] = "idle"
    /\ analysis_history' = analysis_history \cup
           {[id |-> an_seq + 1, chat_id |-> chat, timestamp |-> clock]}
    /\ an_seq' = an_seq + 1
    /\ an_pc' = [an_pc EXCEPT ![t] = "save_inserted"]
    /\ an_chat' = [an_chat EXCEPT ![t] = chat]
    /\ UNCHANGED <<clock, an_count, an_user, an_reply, notAn>>

\* A faulty pruning that keeps one row more than the limit.
Kept_TooMany(chat) == Range(OrderByTimestampDesc(RowsOf(chat), limit + 1))

\* The rows the pruning DELETE keeps: id IN (SELECT ... LIMIT limit).
Kept(chat) == Range(OrderByTimestampDesc(RowsOf(chat), limit))

\* save_analysis, second statement: DELETE ... id NOT IN (...), then commit.
SavePrune(t) ==
    /\ an_pc[t] = "save_inserted"
    /\ analysis_history' = analysis_history \ (RowsOf(an_chat[t]) \ Kept(an_chat[t]))
    /\ an_pc' = [an_pc EXCEPT ![t] = "idle"]
    /\ UNCHANGED <<clock, an_seq, an_chat, an_count, an_user, an_reply, notAn>>

\* get_analysis_history: SELECT ... ORDER BY timestamp DESC LIMIT 5.
get_analysis_history(chat) == OrderByTimestampDesc(RowsOf(chat), history_limit)

Reply(kind, count, user) == [kind |-> kind, count |-> count, user |-> user]

\* clear_analysis_command: the admin check, the chat id argument, then
\* clear_analysis_history up to its SELECT COUNT(*).
ClearCount(t, user, target) ==
    /\ an_pc[t] = "idle"
    /\ an_user' = [an_user EXCEPT ![t] = user]
    /\ IF user \notin admin_ids
       THEN /\ an_reply' = Reply("denied", 0, user)
            /\ UNCHANGED <<an_pc, an_count, an_chat>>
       ELSE LET count_to_delete == Cardinality(RowsOf(target))
            IN  IF count_to_delete > 0
                THEN /\ an_pc' = [an_pc EXCEPT ![t] = "clear_counted"]
                     /\ an_count' = [an_count EXCEPT ![t] = count_to_delete]
                     /\ an_chat' = [an_chat EXCEPT ![t] = target]
                     /\ UNCHANGED an_reply
                ELSE /\ an_reply' = Reply("empty", 0, user)
                     /\ UNCHANGED <<an_pc, an_count, an_chat>>
    /\ UNCHANGED <<clock, analysis_history, an_seq, notAn>>

\* clear_analysis_history: DELETE FROM analysis_history WHERE chat_id = ?,
\* commit, return count_to_delete; the command replies with that count.
ClearDelete(t) ==
    /\ an_pc[t] = "clear_counted"
    /\ analysis_history' = analysis_history \ RowsOf(an_chat[t])
    /\ an_reply' = Reply("deleted", an_count[t], an_user[t])
    /\ an_pc' = [an_pc EXCEPT ![t] = "idle"]
    /\ an_count' = [an_count EXCEPT ![t] = 0]
    /\ UNCHANGED <<clock, an_seq, an_chat, an_user, notAn>>

\* ------------------------------------------------------ gemini_ai/module.py
rate_limit_seconds == 5
max_retries == 2
valid_modes == {"formal", "friendly", "sarcastic"}
encryption_key == "ENCRYPTION_KEY"   \* kernel_data["encryption_key"]
NoSecret == <<>>                     \* no module_secrets.gemini_ai in the config

\* Telegram: a private chat has the id of its user, a group a negative id.
chat_type(chat) == IF chat < 0 THEN "group" ELSE "private"

\* -- str methods
StartsWith(s, prefix) ==
    Len(s) >= Len(prefix) /\ SubSeq(s, 1, Len(prefix)) = prefix

RECURSIVE lstrip(_)
lstrip(s) ==
    IF Len(s) > 0 /\ SubSeq(s, 1, 1) = " " THEN lstrip(SubSeq(s, 2, Len(s))) ELSE s

RECURSIVE rstrip(_)
rstrip(s) ==
    IF Len(s) > 0 /\ SubSeq(s, Len(s), Len(s)) = " "
    THEN rstrip(SubSeq(s, 1, Len(s) - 1)) ELSE s

strip(s) == rstrip(lstrip(s))

UpperCase == "ABCDEFGHIJKLMNOPQRSTUVWXYZ"
LowerCase == "abcdefghijklmnopqrstuvwxyz"

UpperToLower ==
    [c \in {SubSeq(UpperCase, i, i) : i \in 1..Len(UpperCase)} |->
        LET i == CHOOSE j \in 1..Len(UpperCase) : SubSeq(UpperCase, j, j) = c
        IN  SubSeq(LowerCase, i, i)]

LowerChar(c) == IF c \in DOMAIN UpperToLower THEN UpperToLower[c] ELSE c

RECURSIVE lower(_)
lower(s) ==
    IF Len(s) = 0 THEN ""
    ELSE LowerChar(SubSeq(s, 1, 1)) \o lower(SubSeq(s, 2, Len(s)))

\* s up to the first sep, all of s when sep is not in it.
RECURSIVE UpTo(_, _)
UpTo(s, sep) ==
    IF Len(s) = 0 \/ SubSeq(s, 1, 1) = sep THEN ""
    ELSE SubSeq(s, 1, 1) \o UpTo(SubSeq(s, 2, Len(s)), sep)

\* str.split(sep): the list of the pieces between the separators.
RECURSIVE split(_, _)
split(s, sep) ==
    LET head == UpTo(s, sep)
    IN  IF Len(head) = Len(s) THEN <<s>>
        ELSE <<head>> \o split(SubSeq(s, Len(head) + 2, Len(s)), sep)

\* sep.join(parts)
RECURSIVE join(_, _)
join(parts, sep) ==
    IF Len(parts) = 0 THEN ""
    ELSE IF Len(parts) = 1 THEN parts[1]
    ELSE parts[1] \o sep \o join(Tail(parts), sep)

\* s.rstrip(c) for one character c.
RECURSIVE rstrip_char(_, _)
rstrip_char(s, c) ==
    IF Len(s) > 0 /\ SubSeq(s, Len(s), Len(s)) = c
    THEN rstrip_char(SubSeq(s, 1, Len(s) - 1), c) ELSE s

\* The value of one decimal digit; -1 for any other string.
Digit(c) ==
    IF \E i \in 1..10 : SubSeq("0123456789", i, i) = c
    THEN (CHOOSE i \in 1..10 : SubSeq("0123456789", i, i) = c) - 1
    ELSE -1

\* int(s) for a string of decimal digits; -1 stands for ValueError.
RECURSIVE int(_)
int(s) ==
    IF Len(s) = 0 THEN -1
    ELSE IF Len(s) = 1 THEN Digit(s)
    ELSE LET high == int(SubSeq(s, 1, Len(s) - 1))
             low == Digit(SubSeq(s, Len(s), Len(s)))
         IN  IF high < 0 \/ low < 0 THEN -1 ELSE high * 10 + low

\* -- aiogram filters
\* The first word of the text: up to the first space.
RECURSIVE FirstWord(_)
FirstWord(text) ==
    IF Len(text) = 0 \/ SubSeq(text, 1, 1) = " " THEN ""
    ELSE SubSeq(text, 1, 1) \o FirstWord(SubSeq(text, 2, Len(text)))

\* Command(name): the first word is /name, or /name@mention (every mention
\* in the messages below is the bot's own).
IsCommand(text, name) ==
    LET word == FirstWord(text)
    IN  word = "/" \o name \/ StartsWith(word, "/" \o name \o "@")

\* CommandObject.args: what follows the first word, "" when nothing does.
CommandArgs(text) ==
    lstrip(SubSeq(text, Len(FirstWord(text)) + 1, Len(text)))

\* The filter of handle_message: F.text & ~F.text.startswith('/') &
\* (F.text.len() >= 3) & F.chat.type == "private". A message without text
\* has text "".
HandleMessageFilter(m) ==
    /\ m.text # ""
    /\ ~StartsWith(m.text, "/")
    /\ Len(m.text) >= 3
    /\ chat_type(m.chat) = "private"

FsmKey(m) == <<m.chat, m.user>>

\* The router tries its message handlers in the order they are registered and
\* calls the first whose filters pass.
Route(m) ==
    LET waiting == fsm[FsmKey(m)] = "waiting_for_api_key"
    IN  IF HandleMessageFilter(m) THEN "handle_message"
        ELSE IF IsCommand(m.text, "mode") THEN "mode_command"
        ELSE IF IsCommand(m.text, "clearcache") THEN "clear_cache_command"
        ELSE IF waiting /\ m.text # "" THEN "process_api_key"
        ELSE IF waiting THEN "process_api_key_wrong"
        ELSE IF IsCommand(m.text, "cancel") /\ waiting THEN "cancel_key_handler"
        ELSE "unhandled"

\* -- Fernet
Encrypt(key, plaintext) == <<"fernet", key, plaintext>>

\* fernet.decrypt: the plaintext of a token made with the same key; for any
\* other value InvalidToken, which _get_decrypted_key turns into None ("").
Decrypt(key, token) ==
    IF token[1] = "fernet" /\ token[2] = key THEN token[3] ELSE ""

\* A faulty _get_decrypted_key that takes the plaintext out of whatever token
\* is stored, whatever the key.
get_decrypted_key_AnyKey ==
    IF secret = NoSecret THEN "" ELSE secret[3]

\* _get_decrypted_key: "" stands for None.
get_decrypted_key ==
    IF fernet = "" THEN ""
    ELSE IF secret = NoSecret THEN ""
    ELSE Decrypt(fernet, secret)

\* The last message the bot sent.
GReply(kind, chat) == [kind |-> kind, arg |-> "", chat |-> chat, n1 |-> 0, n2 |-> 0]

\* The locals of a handler coroutine; they are gone when it returns.
NoMessage == [chat |-> 0, user |-> 0, text |-> ""]
IdleTask ==
    [pc |-> "idle", message |-> NoMessage, caller |-> "", now |-> 0,
     attempt |-> 0, response |-> "", answer |-> "", cache_count |-> 0,
     conv_count |-> 0]

\* init_db: one CREATE TABLE IF NOT EXISTS per step, in the order
\* gemini_cache, gemini_conversations, gemini_settings, gemini_rate_limit.
GeminiInitDb ==
    /\ g_init < 4
    /\ g_init' = g_init + 1
    /\ UNCHANGED <<clock, gTables, secret, fernet, fsm, g_task, g_reply, notG>>

CacheExists == g_init >= 1
ConversationsExists == g_init >= 2
SettingsExists == g_init >= 3
RateLimitExists == g_init >= 4

RateRow(chat) == {r \in gemini_rate_limit : r.chat_id = chat}

\* handle_message up to its first database statement: `now` is taken here.
handle_message(t, m) ==
    /\ g_task' = [g_task EXCEPT ![t] =
                     [IdleTask EXCEPT !.pc = "rate_limit", !.message = m,
                                      !.caller = "handle_message", !.now = clock]]
    /\ UNCHANGED <<g_init, gTables, secret, fernet, fsm, g_reply>>

\* A faulty rate limiter that lets every message through.
HandleMessageRateLimit_NoWait(t) ==
    /\ g_task[t].pc = "rate_limit"
    /\ g_task' = [g_task EXCEPT ![t].pc = "ask"]
    /\ UNCHANGED <<clock, g_init, gTables, secret, fernet, fsm, g_reply, notG>>

\* handle_message: SELECT last_request and the check. A missing table raises
\* aiosqlite.Error, which is caught; with no row of the chat last_req_time is
\* unbound and the comparison raises UnboundLocalError, which is not.
HandleMessageRateLimit(t) ==
    /\ g_task[t].pc = "rate_limit"
    /\ LET chat_id == g_task[t].message.chat
       IN  IF ~RateLimitExists
           THEN /\ g_task' = [g_task EXCEPT ![t].pc = "ask"]
                /\ UNCHANGED g_reply
           ELSE IF RateRow(chat_id) = {}
           THEN /\ g_reply' = GReply("UnboundLocalError", chat_id)
                /\ g_task' = [g_task EXCEPT ![t] = IdleTask]
           ELSE LET last_req_time == (CHOOSE r \in RateRow(chat_id) : TRUE).last_request
                IN  IF g_task[t].now - last_req_time < rate_limit_seconds
                    THEN /\ g_reply' = GReply("wait", chat_id)
                         /\ g_task' = [g_task EXCEPT ![t] = IdleTask]
                    ELSE /\ g_task' = [g_task EXCEPT ![t].pc = "ask"]
                         /\ UNCHANGED g_reply
    /\ UNCHANGED <<clock, g_init, gTables, secret, fernet, fsm, notG>>

SettingsRow(chat) == {r \in gemini_settings : r.chat_id = chat}

\* The mode /mode reports: the chat's row, or 'friendly'.
current_mode(chat) ==
    IF SettingsRow(chat) = {} THEN "friendly"
    ELSE (CHOOSE r \in SettingsRow(chat) : TRUE).mode

\* mode_command: /mode shows the mode of the chat, /mode <mode> sets it.
mode_command(t, m) ==
    LET new_mode == lower(strip(CommandArgs(m.text)))
    IN  /\ IF ~SettingsExists /\ (new_mode = "" \/ new_mode \in valid_modes)
           THEN /\ g_reply' = GReply("mode_error", m.chat)
                /\ UNCHANGED gemini_settings
           ELSE IF new_mode = ""
           THEN /\ g_reply' = [GReply("mode_current", m.chat) EXCEPT
                                   !.arg = current_mode(m.chat)]
                /\ UNCHANGED gemini_settings
           ELSE IF new_mode \notin valid_modes
           THEN /\ g_reply' = GReply("mode_invalid", m.chat)
                /\ UNCHANGED gemini_settings
           ELSE /\ gemini_settings' = (gemini_settings \ SettingsRow(m.chat))
                        \cup {[chat_id |-> m.chat, mode |-> new_mode]}
                /\ g_reply' = [GReply("mode_changed", m.chat) EXCEPT !.arg = new_mode]
        /\ UNCHANGED <<g_init, gemini_cache, gemini_conversations, g_conv_seq,
                       gemini_rate_limit, secret, fernet, fsm, g_task>>

\* A faulty /clearcache without the admin check.
clear_cache_command_NoAdminCheck(t, m) ==
    /\ IF ~CacheExists
       THEN /\ g_reply' = GReply("clear_error", m.chat)
            /\ UNCHANGED g_task
       ELSE /\ g_task' = [g_task EXCEPT ![t] =
                             [IdleTask EXCEPT !.pc = "clear_count", !.message = m,
                                   !.cache_count = Cardinality(gemini_cache)]]
            /\ UNCHANGED g_reply
    /\ UNCHANGED <<g_init, gTables, secret, fernet, fsm>>

\* clear_cache_command: the admin check, then SELECT COUNT(*) FROM gemini_cache.
clear_cache_command(t, m) ==
    /\ IF m.user \notin admin_ids
       THEN /\ g_reply' = GReply("denied", m.chat)
            /\ UNCHANGED g_task
       ELSE IF ~CacheExists
       THEN /\ g_reply' = GReply("clear_error", m.chat)
            /\ UNCHANGED g_task
       ELSE /\ g_task' = [g_task EXCEPT ![t] =
                             [IdleTask EXCEPT !.pc = "clear_count", !.message = m,
                                   !.cache_count = Cardinality(gemini_cache)]]
            /\ UNCHANGED g_reply
    /\ UNCHANGED <<g_init, gTables, secret, fernet, fsm>>

\* clear_cache_command: SELECT COUNT(*) FROM gemini_conversations.
ClearCacheCount(t) ==
    /\ g_task[t].pc = "clear_count"
    /\ IF ~ConversationsExists
       THEN /\ g_reply' = GReply("clear_error", g_task[t].message.chat)
            /\ g_task' = [g_task EXCEPT ![t] = IdleTask]
       ELSE /\ g_task' = [g_task EXCEPT ![t].pc = "clear_cache",
                              ![t].conv_count = Cardinality(gemini_conversations)]
            /\ UNCHANGED g_reply
    /\ UNCHANGED <<clock, g_init, gTables, secret, fernet, fsm, notG>>

\* clear_cache_command: DELETE FROM gemini_cache.
ClearCacheDeleteCache(t) ==
    /\ g_task[t].pc = "clear_cache"
    /\ gemini_cache' = {}
    /\ g_task' = [g_task EXCEPT ![t].pc = "clear_conversations"]
    /\ UNCHANGED <<clock, g_init, gemini_conversations, g_conv_seq, gemini_settings,
                   gemini_rate_limit, secret, fernet, fsm, g_reply, notG>>

\* clear_cache_command: DELETE FROM gemini_conversations, commit, reply.
ClearCacheDeleteConversations(t) ==
    /\ g_task[t].pc = "clear_conversations"
    /\ gemini_conversations' = {}
    /\ g_reply' = [GReply("cleared", g_task[t].message.chat) EXCEPT
                       !.n1 = g_task[t].cache_count, !.n2 = g_task[t].conv_count]
    /\ g_task' = [g_task EXCEPT ![t] = IdleTask]
    /\ UNCHANGED <<clock, g_init, gemini_cache, g_conv_seq, gemini_settings,
                   gemini_rate_limit, secret, fernet, fsm, notG>>

\* set_key_start: the gemini:set_key button.
set_key_start(chat, user) ==
    /\ fernet # ""
    /\ fsm' = [fsm EXCEPT ![<<chat, user>>] = "waiting_for_api_key"]
    /\ UNCHANGED <<clock, g_init, gTables, secret, fernet, g_task, g_reply, notG>>

\* A faulty process_api_key that stores the text as it came, blanks included.
process_api_key_Unstripped(t, m) ==
    /\ IF strip(m.text) = "" \/ Len(strip(m.text)) < 10
       THEN /\ g_reply' = GReply("key_refused", m.chat)
            /\ UNCHANGED <<secret, fsm>>
       ELSE /\ secret' = Encrypt(fernet, m.text)
            /\ g_reply' = GReply("key_saved", m.chat)
            /\ fsm' = [fsm EXCEPT ![FsmKey(m)] = "none"]
    /\ UNCHANGED <<g_init, gTables, fernet, g_task>>

\* process_api_key: the text is the key; a key shorter than 10 is refused and
\* the state kept; any other is encrypted and put in the config, config.json
\* is written (which may fail), and the state is cleared.
process_api_key(t, m) ==
    LET api_key == strip(m.text)
    IN  /\ IF api_key = "" \/ Len(api_key) < 10
           THEN /\ g_reply' = GReply("key_refused", m.chat)
                /\ UNCHANGED <<secret, fsm>>
           ELSE IF fernet = ""
           THEN /\ g_reply' = GReply("no_encryption_key", m.chat)
                /\ fsm' = [fsm EXCEPT ![FsmKey(m)] = "none"]
                /\ UNCHANGED secret
           ELSE /\ secret' = Encrypt(fernet, api_key)
                /\ \E written \in BOOLEAN :
                       g_reply' = GReply(IF written THEN "key_saved"
                                         ELSE "key_not_saved", m.chat)
                /\ fsm' = [fsm EXCEPT ![FsmKey(m)] = "none"]
        /\ UNCHANGED <<g_init, gTables, fernet, g_task>>

\* process_api_key_wrong: a message without text while waiting for the key.
process_api_key_wrong(t, m) ==
    /\ g_reply' = GReply("send_text", m.chat)
    /\ UNCHANGED <<g_init, gTables, secret, fernet, fsm, g_task>>

\* cancel_key_handler: /cancel while waiting for the key.
cancel_key_handler(t, m) ==
    /\ fsm' = [fsm EXCEPT ![FsmKey(m)] = "none"]
    /\ g_reply' = GReply("cancelled", m.chat)
    /\ UNCHANGED <<g_init, gTables, secret, fernet, g_task>>

\* A message reaches the router: the first matching handler runs.
OnMessage(t, m) ==
    /\ g_task[t].pc = "idle"
    /\ LET handler == Route(m)
       IN  CASE handler = "handle_message" -> handle_message(t, m)
             [] handler = "mode_command" -> mode_command(t, m)
             [] handler = "clear_cache_command" -> clear_cache_command(t, m)
             [] handler = "process_api_key" -> process_api_key(t, m)
             [] handler = "process_api_key_wrong" -> process_api_key_wrong(t, m)
             [] handler = "cancel_key_handler" -> cancel_key_handler(t, m)
             [] OTHER -> FALSE
    /\ UNCHANGED <<clock, notG>>

CacheRow(question) == {r \in gemini_cache : r.question = question}
ConversationsOf(chat) == {r \in gemini_conversations : r.chat_id = chat}

\* ask_gemini(kernel_data, question, chat_id) called from outside a handler.
AskCall(t, chat_id, question) ==
    /\ g_task[t].pc = "idle"
    /\ g_task' = [g_task EXCEPT ![t] =
                     [IdleTask EXCEPT !.pc = "ask", !.caller = "call",
                         !.message = [chat |-> chat_id, user |-> 0, text |-> question]]]
    /\ UNCHANGED <<clock, g_init, gTables, secret, fernet, fsm, g_reply, notG>>

\* ask_gemini up to the request: the key, then the cache (a failed read of
\* the cache is logged and taken for a miss).
AskCache(t) ==
    /\ g_task[t].pc = "ask"
    /\ LET question == g_task[t].message.text
       IN  IF get_decrypted_key = ""
           THEN g_task' = [g_task EXCEPT ![t].pc = "answered", ![t].answer = "no_key"]
           ELSE IF CacheExists /\ CacheRow(question) # {}
           THEN g_task' = [g_task EXCEPT ![t].pc = "answered",
                    ![t].answer = (CHOOSE r \in CacheRow(question) : TRUE).answer]
           ELSE g_task' = [g_task EXCEPT ![t].pc = "http", ![t].attempt = 0]
    /\ UNCHANGED <<clock, g_init, gTables, secret, fernet, fsm, g_reply, notG>>

Retryable == {"429", "500", "503"}
RequestErrors == {"TimeoutError", "ClientError", "Exception"}

\* What ask_gemini returns for a response it does not retry.
FailureMessage(response) ==
    CASE response = "200_no_candidate" -> "not_generated"
      [] response = "200_bad_json" -> "bad_response"
      [] response = "400" -> "bad_request"
      [] response = "429" -> "rate_limited"
      [] response \in {"500", "503"} -> "server_error"
      [] response = "TimeoutError" -> "timed_out"
      [] response = "ClientError" -> "network_error"
      [] response = "Exception" -> "internal_error"
      [] OTHER -> "ai_error"

\* A faulty retry loop that allows one attempt more.
AskHttp_OneMore(t, response) ==
    /\ g_task[t].pc = "http"
    /\ IF response = "200"
       THEN g_task' = [g_task EXCEPT ![t].pc = "store_cache",
                                     ![t].response = response,
                                     ![t].answer = "full_answer"]
       ELSE IF response \in Retryable \cup RequestErrors /\ g_task[t].attempt < max_retries
       THEN g_task' = [g_task EXCEPT ![t].attempt = @ + 1, ![t].response = response]
       ELSE g_task' = [g_task EXCEPT ![t].pc = "answered",
                                     ![t].response = response,
                                     ![t].answer = FailureMessage(response)]
    /\ UNCHANGED <<clock, g_init, gTables, secret, fernet, fsm, g_reply, notG>>

\* A faulty ask_gemini that saves whatever it is about to return, the
\* failure messages included.
AskHttp_StoreFailure(t, response) ==
    /\ g_task[t].pc = "http"
    /\ IF response = "200"
       THEN g_task' = [g_task EXCEPT ![t].pc = "store_cache",
                                     ![t].response = response,
                                     ![t].answer = "full_answer"]
       ELSE IF response \in Retryable \cup RequestErrors /\ g_task[t].attempt < max_retries - 1
       THEN g_task' = [g_task EXCEPT ![t].attempt = @ + 1, ![t].response = response]
       ELSE g_task' = [g_task EXCEPT ![t].pc = "store_cache",
                                     ![t].response = response,
                                     ![t].answer = FailureMessage(response)]
    /\ UNCHANGED <<clock, g_init, gTables, secret, fernet, fsm, g_reply, notG>>

\* ask_gemini: one attempt of the retry loop, with the endpoint's response
\* (a status, or the exception the request ended with).
AskHttp(t, response) ==
    /\ g_task[t].pc = "http"
    /\ IF response = "200"
       THEN g_task' = [g_task EXCEPT ![t].pc = "store_cache",
                                     ![t].response = response,
                                     ![t].answer = "full_answer"]
       ELSE IF response \in Retryable \cup RequestErrors /\ g_task[t].attempt < max_retries - 1
       THEN g_task' = [g_task EXCEPT ![t].attempt = @ + 1, ![t].response = response]
       ELSE g_task' = [g_task EXCEPT ![t].pc = "answered",
                                     ![t].response = response,
                                     ![t].answer = FailureMessage(response)]
    /\ UNCHANGED <<clock, g_init, gTables, secret, fernet, fsm, g_reply, notG>>

\* ask_gemini: INSERT OR REPLACE INTO gemini_cache; an error skips the rest
\* of the try block.
AskStoreCache(t) ==
    /\ g_task[t].pc = "store_cache"
    /\ LET question == g_task[t].message.text
       IN  IF CacheExists
           THEN /\ gemini_cache' = (gemini_cache \ CacheRow(question))
                       \cup {[question |-> question, answer |-> g_task[t].answer]}
                /\ g_task' = [g_task EXCEPT ![t].pc = "store_conversation"]
           ELSE /\ g_task' = [g_task EXCEPT ![t].pc = "answered"]
                /\ UNCHANGED gemini_cache
    /\ UNCHANGED <<clock, g_init, gemini_conversations, g_conv_seq, gemini_settings,
                   gemini_rate_limit, secret, fernet, fsm, g_reply, notG>>

\* ask_gemini: INSERT INTO gemini_conversations, commit, return full_answer.
AskStoreConversation(t) ==
    /\ g_task[t].pc = "store_conversation"
    /\ IF ConversationsExists
       THEN /\ gemini_conversations' = gemini_conversations \cup
                   {[id |-> g_conv_seq + 1, chat_id |-> g_task[t].message.chat,
                     question |-> g_task[t].message.text]}
            /\ g_conv_seq' = g_conv_seq + 1
       ELSE UNCHANGED <<gemini_conversations, g_conv_seq>>
    /\ g_task' = [g_task EXCEPT ![t].pc = "answered"]
    /\ UNCHANGED <<clock, g_init, gemini_cache, gemini_settings, gemini_rate_limit,
                   secret, fernet, fsm, g_reply, notG>>

\* ask_gemini returns to the caller that is not handle_message.
AskReturn(t) ==
    /\ g_task[t].pc = "answered"
    /\ g_task[t].caller = "call"
    /\ g_task' = [g_task EXCEPT ![t] = IdleTask]
    /\ UNCHANGED <<clock, g_init, gTables, secret, fernet, fsm, g_reply, notG>>

\* handle_message after ask_gemini: the reply, then INSERT OR REPLACE INTO
\* gemini_rate_limit with the `now` taken when the message arrived.
HandleMessageReply(t) ==
    /\ g_task[t].pc = "answered"
    /\ g_task[t].caller = "handle_message"
    /\ LET chat_id == g_task[t].message.chat
       IN  /\ g_reply' = GReply(g_task[t].answer, chat_id)
           /\ IF RateLimitExists
              THEN gemini_rate_limit' = (gemini_rate_limit \ RateRow(chat_id))
                       \cup {[chat_id |-> chat_id, last_request |-> g_task[t].now]}
              ELSE UNCHANGED gemini_rate_limit
    /\ g_task' = [g_task EXCEPT ![t] = IdleTask]
    /\ UNCHANGED <<clock, g_init, gemini_cache, gemini_conversations, g_conv_seq,
                   gemini_settings, secret, fernet, fsm, notG>>

\* ------------------------------------------- youtube_downloader/module.py
\* config=None of set_user_config; a dict is a function on its keys.
None == [None |-> TRUE]
EmptyDict == [k \in {} |-> ""]
DictGet(dict, key, default) == IF key \in DOMAIN dict THEN dict[key] ELSE default

\* The defaults of USER_PARAMETERS.
USER_PARAMETERS == [default_format |-> "video", default_quality |-> "720"]

\* str.replace(old, new): every occurrence, left to right.
RECURSIVE replace(_, _, _)
replace(s, old, new) ==
    IF Len(s) = 0 THEN ""
    ELSE IF StartsWith(s, old)
    THEN new \o replace(SubSeq(s, Len(old) + 1, Len(s)), old, new)
    ELSE SubSeq(s, 1, 1) \o replace(SubSeq(s, 2, Len(s)), old, new)

IdleYt ==
    [pc |-> "idle", op |-> "", user_id |-> 0, config |-> None,
     message |-> NoMessage, url |-> ""]

ConfigRow(user_id) == {r \in youtube_downloader_config : r.user_id = user_id}

\* A faulty INSERT OR REPLACE that keeps the row it should replace.
InsertOrReplace_Append(rows, row) == rows \cup {row}

\* INSERT OR REPLACE on a table whose primary key is user_id.
InsertOrReplace(rows, row) == {r \in rows : r.user_id # row.user_id} \cup {row}

\* What get_user_config returns from its SELECT.
SelectUserConfig(user_id) ==
    IF ConfigRow(user_id) = {} THEN EmptyDict
    ELSE LET row == CHOOSE r \in ConfigRow(user_id) : TRUE
         IN  [default_format |-> row.default_format,
              default_quality |-> row.default_quality]

\* get_user_config(db, user_id) is called.
GetUserConfigCall(t, user_id) ==
    /\ yt_task[t].pc = "idle"
    /\ yt_task' = [yt_task EXCEPT ![t] =
                      [IdleYt EXCEPT !.pc = "table_check", !.op = "get_user_config",
                                     !.user_id = user_id]]
    /\ UNCHANGED <<clock, yt_table, youtube_downloader_config, yt_result, yt_reply,
                   fsm, notYt>>

\* set_user_config(db, user_id, config) is called.
SetUserConfigCall(t, user_id, config) ==
    /\ yt_task[t].pc = "idle"
    /\ yt_task' = [yt_task EXCEPT ![t] =
                      [IdleYt EXCEPT !.pc = "table_check", !.op = "set_user_config",
                                     !.user_id = user_id, !.config = config]]
    /\ UNCHANGED <<clock, yt_table, youtube_downloader_config, yt_result, yt_reply,
                   fsm, notYt>>

\* Where a caller of init_db goes on when init_db returns.
AfterInitDb(op) ==
    CASE op = "set_user_config" -> "write"
      [] op \in {"get_user_config", "process_url"} -> "select"
      [] OTHER -> "idle"

\* get_user_config / set_user_config: SELECT name FROM sqlite_master; a
\* missing table sends the caller into init_db.
TableCheck(t) ==
    /\ yt_task[t].pc = "table_check"
    /\ yt_task' = [yt_task EXCEPT ![t].pc =
                      IF yt_table THEN AfterInitDb(yt_task[t].op) ELSE "init_check"]
    /\ UNCHANGED <<clock, yt_table, youtube_downloader_config, yt_result, yt_reply,
                   fsm, notYt>>

\* init_db: SELECT name FROM sqlite_master.
InitDbCheck(t) ==
    /\ yt_task[t].pc = "init_check"
    /\ yt_task' = [yt_task EXCEPT ![t] =
                      IF ~yt_table THEN [@ EXCEPT !.pc = "init_create"]
                      ELSE IF @.op = "init_db" THEN IdleYt
                      ELSE [@ EXCEPT !.pc = AfterInitDb(yt_task[t].op)]]
    /\ UNCHANGED <<clock, yt_table, youtube_downloader_config, yt_result, yt_reply,
                   fsm, notYt>>

\* get_user_config returns `value`: to its caller, or into process_url, which
\* answers with the format buttons of the url and clears the state.
GetUserConfigReturn(t, value) ==
    /\ IF yt_task[t].op = "process_url"
       THEN /\ yt_reply' = [kind |-> "choose_format", url |-> yt_task[t].url,
                            default_format |-> DictGet(value, "default_format",
                                                 USER_PARAMETERS.default_format)]
            /\ fsm' = [fsm EXCEPT ![FsmKey(yt_task[t].message)] = "none"]
            /\ UNCHANGED yt_result
       ELSE /\ yt_result' = [op |-> "get_user_config", user_id |-> yt_task[t].user_id,
                             value |-> value]
            /\ UNCHANGED <<yt_reply, fsm>>
    /\ yt_task' = [yt_task EXCEPT ![t] = IdleYt]

Raised(exception) == [raised |-> exception]

\* init_db: CREATE TABLE (without IF NOT EXISTS); its error is raised again.
\* get_user_config turns it into {}, set_user_config raises it again.
InitDbCreate(t) ==
    /\ yt_task[t].pc = "init_create"
    /\ IF ~yt_table
       THEN /\ yt_table' = TRUE
            /\ yt_task' = [yt_task EXCEPT ![t] =
                              IF @.op = "init_db" THEN IdleYt
                              ELSE [@ EXCEPT !.pc = AfterInitDb(yt_task[t].op)]]
            /\ UNCHANGED <<yt_result, yt_reply, fsm>>
       ELSE /\ UNCHANGED yt_table
            /\ IF yt_task[t].op \in {"get_user_config", "process_url"}
               THEN GetUserConfigReturn(t, EmptyDict)
               ELSE /\ yt_result' = [op |-> yt_task[t].op,
                                     user_id |-> yt_task[t].user_id,
                                     value |-> Raised("OperationalError")]
                    /\ yt_task' = [yt_task EXCEPT ![t] = IdleYt]
                    /\ UNCHANGED <<yt_reply, fsm>>
    /\ UNCHANGED <<clock, youtube_downloader_config, notYt>>

\* get_user_config: SELECT default_format, default_quality WHERE user_id = ?.
Select(t) ==
    /\ yt_task[t].pc = "select"
    /\ GetUserConfigReturn(t, IF yt_table THEN SelectUserConfig(yt_task[t].user_id)
                              ELSE EmptyDict)
    /\ UNCHANGED <<clock, yt_table, youtube_downloader_config, notYt>>

\* A faulty write that stores the defaults whatever the config says.
ConfigValues_Defaults(user_id, config) ==
    [user_id |-> user_id,
     default_format |-> USER_PARAMETERS.default_format,
     default_quality |-> USER_PARAMETERS.default_quality]

\* The row set_user_config writes for a config dict.
ConfigValues(user_id, config) ==
    [user_id |-> user_id,
     default_format |-> DictGet(config, "default_format", USER_PARAMETERS.default_format),
     default_quality |-> DictGet(config, "default_quality",
                                 USER_PARAMETERS.default_quality)]

\* set_user_config: DELETE for config None, else INSERT OR REPLACE; commit.
Write(t) ==
    /\ yt_task[t].pc = "write"
    /\ LET user_id == yt_task[t].user_id
           config == yt_task[t].config
       IN  IF ~yt_table
           THEN /\ yt_result' = [op |-> "set_user_config", user_id |-> user_id,
                                 value |-> Raised("OperationalError")]
                /\ UNCHANGED youtube_downloader_config
           ELSE /\ youtube_downloader_config' =
                       IF config = None
                       THEN youtube_downloader_config \ ConfigRow(user_id)
                       ELSE InsertOrReplace(youtube_downloader_config,
                                            ConfigValues(user_id, config))
                /\ yt_result' = [op |-> "set_user_config", user_id |-> user_id,
                                 value |-> config]
    /\ yt_task' = [yt_task EXCEPT ![t] = IdleYt]
    /\ UNCHANGED <<clock, yt_table, yt_reply, fsm, notYt>>

\* process_url(message, url, state) starts: it calls get_user_config.
process_url(t, m, url) ==
    /\ yt_task' = [yt_task EXCEPT ![t] =
                      [IdleYt EXCEPT !.pc = "table_check", !.op = "process_url",
                                     !.user_id = m.user, !.message = m, !.url = url]]
    /\ UNCHANGED <<yt_reply, fsm>>

\* yt_command: /yt <url> goes to process_url, /yt alone asks for the url.
yt_command(t, m) ==
    LET args == strip(replace(m.text, "/yt", ""))
    IN  IF args # ""
        THEN process_url(t, m, args)
        ELSE /\ yt_reply' = [kind |-> "enter_url", url |-> "", default_format |-> ""]
             /\ fsm' = [fsm EXCEPT ![FsmKey(m)] = "waiting_for_url"]
             /\ UNCHANGED yt_task

\* process_url_input: any message in waiting_for_url; message.text is None
\* for a message without text, and None has no strip.
process_url_input(t, m) ==
    IF m.text = ""
    THEN /\ yt_reply' = [kind |-> "AttributeError", url |-> "", default_format |-> ""]
         /\ UNCHANGED <<yt_task, fsm>>
    ELSE LET url == strip(m.text)
         IN  IF url = ""
             THEN /\ yt_reply' = [kind |-> "enter_valid_url", url |-> "",
                                  default_format |-> ""]
                  /\ UNCHANGED <<yt_task, fsm>>
             ELSE process_url(t, m, url)

\* The router of youtube_downloader: Command("yt") is registered before the
\* waiting_for_url handler.
YtRoute(m) ==
    IF IsCommand(m.text, "yt") THEN "yt_command"
    ELSE IF fsm[FsmKey(m)] = "waiting_for_url" THEN "process_url_input"
    ELSE "unhandled"

YtOnMessage(t, m) ==
    /\ yt_task[t].pc = "idle"
    /\ LET handler == YtRoute(m)
       IN  CASE handler = "yt_command" -> yt_command(t, m)
             [] handler = "process_url_input" -> process_url_input(t, m)
             [] OTHER -> FALSE
    /\ UNCHANGED <<clock, yt_table, youtube_downloader_config, yt_result, notYt>>

\* -- process_url and process_selection of youtube_downloader and of yt
DownloaderModules == {"youtube_downloader", "yt"}
Qualities == {"360", "720", "1080"}

\* The callback_data process_url puts on the three format buttons of a url.
FormatButtons(module, url) ==
    IF module = "youtube_downloader"
    THEN [video |-> "yt_video_" \o url, audio |-> "yt_audio_" \o url,
          default |-> "yt_default_" \o url]
    ELSE [video |-> "yt_format_video_" \o url, audio |-> "yt_format_audio_" \o url,
          default |-> "yt_default_" \o url]

\* The callback_data the video branch of process_selection puts on the
\* quality buttons of a url.
QualityButtons(url) == [q \in Qualities |-> "yt_quality_" \o q \o "_" \o url]

\* The filter of process_selection.
SelectionFilter(module, data) ==
    IF module = "youtube_downloader" THEN StartsWith(data, "yt_")
    ELSE \/ StartsWith(data, "yt_format_")
         \/ StartsWith(data, "yt_default_")
         \/ StartsWith(data, "yt_quality_")

\* The number a quality is compared as: youtube_downloader drops a trailing
\* 'p' first, yt does not; -1 stands for ValueError.
QualityNum(module, quality) ==
    IF module = "youtube_downloader" THEN int(rstrip_char(quality, "p")) ELSE int(quality)

\* A faulty comparison that lets every quality through.
Exceeds_Never(module, quality, ceiling) == FALSE

\* quality_num > max_quality_num
Exceeds(module, quality, ceiling) ==
    QualityNum(module, quality) > QualityNum(module, ceiling)

Selection(module, kind, url, format_type, quality) ==
    [module |-> module, kind |-> kind, url |-> url, format_type |-> format_type,
     quality |-> quality]

\* What process_selection does with callback data: the menu, a download, a
\* refusal, nothing at all (no branch taken), or an exception. None is "".
Selected(module, data, user_config, ceiling) ==
    LET parts == split(data, "_")
        action == parts[2]
        default_format == DictGet(user_config, "default_format",
                                  USER_PARAMETERS.default_format)
        default_quality == DictGet(user_config, "default_quality",
                                   USER_PARAMETERS.default_quality)
        url == join(SubSeq(parts, 3, Len(parts)), "_")
    IN  IF action = "default"
        THEN LET quality == IF default_format = "video" THEN default_quality ELSE ""
                 bad_quality == QualityNum(module, quality) < 0
                 bad_ceiling == QualityNum(module, ceiling) < 0
             IN  IF IF module = "youtube_downloader"
                    THEN (quality # "" /\ bad_quality) \/ bad_ceiling
                    ELSE default_format = "video" /\ (bad_quality \/ bad_ceiling)
                 THEN Selection(module, "ValueError", "", "", "")
                 ELSE Selection(module, "download", url, default_format,
                                IF default_format = "video"
                                   /\ Exceeds(module, quality, ceiling)
                                THEN ceiling ELSE quality)
        ELSE IF action = "video"
        THEN Selection(module, "quality_menu", url, "", "")
        ELSE IF action = "audio"
        THEN Selection(module, "download", url, "audio", "")
        ELSE IF action = "quality"
        THEN IF Len(parts) < 3
             THEN Selection(module, "IndexError", "", "", "")
             ELSE LET quality == parts[3]
                      quality_url == IF module = "youtube_downloader"
                                     THEN join(SubSeq(parts, 4, Len(parts)), "_")
                                     ELSE url
                  IN  IF QualityNum(module, quality) < 0
                         \/ QualityNum(module, ceiling) < 0
                      THEN Selection(module, "ValueError", "", "", "")
                      ELSE IF Exceeds(module, quality, ceiling)
                      THEN Selection(module, "rejected", "", "", quality)
                      ELSE Selection(module, "download", quality_url, "video", quality)
        ELSE Selection(module, "ignored", "", "", "")

\* The locals of process_selection kept with what it did: the callback data,
\* the max_quality it loaded and the default_quality it read.
Pressed(did, data, ceiling, default_quality) ==
    [did |-> did, data |-> data, max_quality |-> ceiling,
     default_quality |-> default_quality]

\* process_selection(callback): get_user_config (whose lazy init creates a
\* missing table), load_config, then the branch of the action; a download
\* goes on in process_download.
process_selection(module, cb) ==
    LET user_config == IF yt_table THEN SelectUserConfig(cb.user) ELSE EmptyDict
        selected == Selected(module, cb.data, user_config, max_quality)
    IN  /\ SelectionFilter(module, cb.data)
        /\ dl_task.pc = "idle"
        /\ \A t \in DOMAIN yt_task : yt_task[t].pc = "idle"
        /\ yt_table' = TRUE
        /\ sel' = Pressed(selected, cb.data, max_quality,
                          DictGet(user_config, "default_quality",
                                  USER_PARAMETERS.default_quality))
        /\ IF selected.kind = "download"
           THEN dl_task' = [pc |-> "download", url |-> selected.url,
                            format_type |-> selected.format_type]
           ELSE UNCHANGED dl_task
        /\ UNCHANGED <<max_quality, download_dir, dl_reply, youtube_downloader_config,
                       yt_task, yt_result, yt_reply, notSel>>

\* The admin's setting of max_quality is written to config.json.
SetMaxQuality(quality) ==
    /\ max_quality # quality
    /\ max_quality' = quality
    /\ UNCHANGED <<sel, dlVars, ytVars, notSel>>

\* ----------------------------------------------------------------- Sample.py
SampleDefault == "default value"   \* USER_PARAMETERS["example_user_param"]["default"]

SampleRow(user_id) == {r \in sample_config : r.user_id = user_id}

\* init_db of the module: the table is created when it is missing.
SampleInitDb ==
    /\ ~sample_table
    /\ sample_table' = TRUE
    /\ UNCHANGED <<clock, sample_config, sample_result, sample_reply, fsm, notSample>>

\* get_user_config: the row of the user, {} without one or on an error.
SampleGetUserConfig(user_id) ==
    /\ sample_result' =
           [op |-> "get_user_config", user_id |-> user_id,
            value |-> IF sample_table /\ SampleRow(user_id) # {}
                      THEN [example_user_param |->
                               (CHOOSE r \in SampleRow(user_id) : TRUE).example_user_param]
                      ELSE EmptyDict]
    /\ UNCHANGED <<clock, sample_table, sample_config, sample_reply, fsm, notSample>>

\* set_user_config: DELETE for config None, else INSERT OR REPLACE; an error
\* is raised again.
SampleSetUserConfig(user_id, config) ==
    /\ IF ~sample_table
       THEN /\ sample_result' = [op |-> "set_user_config", user_id |-> user_id,
                                 value |-> Raised("OperationalError")]
            /\ UNCHANGED sample_config
       ELSE /\ sample_config' =
                   IF config = None THEN sample_config \ SampleRow(user_id)
                   ELSE InsertOrReplace(sample_config,
                            [user_id |-> user_id,
                             example_user_param |->
                                 DictGet(config, "example_user_param", SampleDefault)])
            /\ sample_result' = [op |-> "set_user_config", user_id |-> user_id,
                                 value |-> config]
    /\ UNCHANGED <<clock, sample_table, sample_reply, fsm, notSample>>

\* command_handler: /command_name <data> echoes the data, /command_name alone
\* asks for it.
command_handler(m) ==
    LET args == strip(replace(m.text, "/command_name", ""))
    IN  IF args # ""
        THEN /\ sample_reply' = [kind |-> "you_entered", arg |-> args]
             /\ UNCHANGED fsm
        ELSE /\ sample_reply' = [kind |-> "enter_data", arg |-> ""]
             /\ fsm' = [fsm EXCEPT ![FsmKey(m)] = "waiting_for_input"]

\* process_input: any message in waiting_for_input.
process_input(m) ==
    IF m.text = ""
    THEN /\ sample_reply' = [kind |-> "AttributeError", arg |-> ""]
         /\ UNCHANGED fsm
    ELSE LET input_data == strip(m.text)
         IN  IF input_data = ""
             THEN /\ sample_reply' = [kind |-> "enter_valid_data", arg |-> ""]
                  /\ UNCHANGED fsm
             ELSE /\ sample_reply' = [kind |-> "received", arg |-> input_data]
                  /\ fsm' = [fsm EXCEPT ![FsmKey(m)] = "none"]

SampleRoute(m) ==
    IF IsCommand(m.text, "command_name") THEN "command_handler"
    ELSE IF fsm[FsmKey(m)] = "waiting_for_input" THEN "process_input"
    ELSE "unhandled"

SampleOnMessage(m) ==
    /\ LET handler == SampleRoute(m)
       IN  CASE handler = "command_handler" -> command_handler(m)
             [] handler = "process_input" -> process_input(m)
             [] OTHER -> FALSE
    /\ UNCHANGED <<clock, sample_table, sample_config, sample_result, notSample>>

\* The wall clock advances by one second.
Tick ==
    /\ clock' = clock + 1
    /\ UNCHANGED <<fsm, anVars, gVars, ytVars, sampleVars, moreVars>>

\* ------------------------------------------------------------------ inputs
\* ------------------------------------------------ module_manager/module.py
\* The modules a repository may offer, and the files a module may come with.
ModuleNames == {"alpha", "beta"}
FileSets == {{}, {"module.py"}, {"module.py", "manifest.json"}}

DirExists(name) == <<name>> \in modules_dir

\* module_dir.mkdir(parents=True, exist_ok=True)
Mkdir(dir, name) == dir \cup {<<name>>}

\* shutil.rmtree(module_dir)
Rmtree(dir, name) == {p \in dir : p[1] # name}

\* Copying or extracting `files` into the module's directory.
PutFiles(dir, name, files) == dir \cup {<<name, f>> : f \in files}

\* The check of the installed files; a failed check removes the directory.
HasNeededFiles(dir, name) ==
    <<name, "module.py">> \in dir /\ <<name, "manifest.json">> \in dir

IdleInstall == [pc |-> "idle", module_name |-> "", repo_url |-> ""]
InstallResult(ok, error, name) == [ok |-> ok, error |-> error, module_name |-> name]

\* The synchronous tail shared by both branches: the files are in place (or an
\* exception was raised on the way), then the check of module.py and
\* manifest.json.
InstallFinish(dir, name, raised) ==
    IF raised
    THEN /\ modules_dir' = (IF <<name>> \in dir THEN Rmtree(dir, name) ELSE dir)
         /\ mm_result' = InstallResult(FALSE, "exception", name)
    ELSE IF ~HasNeededFiles(dir, name)
    THEN /\ modules_dir' = Rmtree(dir, name)
         /\ mm_result' = InstallResult(FALSE, "no_needed_files", name)
    ELSE /\ modules_dir' = dir
         /\ mm_result' = InstallResult(TRUE, "", name)

\* _install_module, file:// branch: mkdir, the source directory is looked up
\* and copied, the check. Nothing is awaited on the way.
InstallLocal(name, src, copy_fails) ==
    LET made == Mkdir(modules_dir, name)
    IN  IF ~src.exists
        THEN /\ modules_dir' = made
             /\ mm_result' = InstallResult(FALSE, "not_in_local_repository", name)
        ELSE InstallFinish(PutFiles(made, name, src.files), name, copy_fails)

\* _install_module(module) up to its first await: the checks of the name, the
\* URL and the directory, mkdir; a local repository is copied at once, for a
\* remote one the archive is requested.
install_module(module, src, copy_fails) ==
    LET name == module.name
        repo_url == module.repository_url
    IN  /\ mm_task.pc = "idle"
        /\ IF name = ""
           THEN /\ mm_result' = InstallResult(FALSE, "no_name", name)
                /\ UNCHANGED <<modules_dir, mm_task>>
           ELSE IF repo_url = ""
           THEN /\ mm_result' = InstallResult(FALSE, "no_url", name)
                /\ UNCHANGED <<modules_dir, mm_task>>
           ELSE IF DirExists(name)
           THEN /\ mm_result' = InstallResult(FALSE, "already_installed", name)
                /\ UNCHANGED <<modules_dir, mm_task>>
           ELSE IF StartsWith(repo_url, "file://")
           THEN /\ InstallLocal(name, src, copy_fails)
                /\ UNCHANGED mm_task
           ELSE /\ modules_dir' = Mkdir(modules_dir, name)
                /\ mm_task' = [pc |-> "get", module_name |-> name, repo_url |-> repo_url]
                /\ UNCHANGED mm_result
        /\ UNCHANGED notMm

\* session.get(module_zip_url): a status other than 200 returns failure; an
\* error of the request is an exception.
InstallResponse(response) ==
    LET name == mm_task.module_name
    IN  /\ mm_task.pc = "get"
        /\ IF response = "200"
           THEN /\ mm_task' = [mm_task EXCEPT !.pc = "read"]
                /\ UNCHANGED <<modules_dir, mm_result>>
           ELSE IF response = "ClientError"
           THEN /\ InstallFinish(modules_dir, name, TRUE)
                /\ mm_task' = IdleInstall
           ELSE /\ mm_result' = InstallResult(FALSE, "http_status", name)
                /\ mm_task' = IdleInstall
                /\ UNCHANGED modules_dir
        /\ UNCHANGED notMm

\* response.read(), the archive written and extracted (an unreadable archive
\* raises BadZipFile), the check.
InstallExtract(archive) ==
    LET name == mm_task.module_name
    IN  /\ mm_task.pc = "read"
        /\ InstallFinish(PutFiles(modules_dir, name, archive.files), name,
                         ~archive.exists)
        /\ mm_task' = IdleInstall
        /\ UNCHANGED notMm

\* delete_module: the directory of an installed module (one that
\* _get_installed_modules lists: it has a manifest.json) is removed.
delete_module(name) ==
    /\ mm_task.pc = "idle"
    /\ <<name, "manifest.json">> \in modules_dir
    /\ modules_dir' = Rmtree(modules_dir, name)
    /\ UNCHANGED <<mm_task, mm_result, notMm>>

\* The module manager's handlers of callbacks and of dialog messages.
MmOp(operation, module_name) == [operation |-> operation, module_name |-> module_name]

\* _get_installed_modules: the directories that hold a manifest.json.
IsInstalled(name) == <<name, "manifest.json">> \in modules_dir

\* 'enabled': false in the manifest.json of a module.
Disabled(name) == <<name, "manifest.json", "disabled">>

\* toggle_repository(callback, repo_idx), repo_idx counted from 0.
toggle_repository(repo_idx) ==
    /\ mm_op' = MmOp("toggle_repository", "")
    /\ IF repo_idx >= Len(repositories)
       THEN UNCHANGED repositories
       ELSE repositories' = [repositories EXCEPT ![repo_idx + 1].enabled = ~@]

\* delete_repository(callback, repo_idx): del repositories[repo_idx].
delete_repository(repo_idx) ==
    /\ mm_op' = MmOp("delete_repository", "")
    /\ IF repo_idx >= Len(repositories)
       THEN UNCHANGED repositories
       ELSE repositories' = [i \in 1..(Len(repositories) - 1) |->
                                IF i <= repo_idx THEN repositories[i]
                                ELSE repositories[i + 1]]

\* handle_repo_callback: F.data.startswith("repo:"); the action is the piece
\* after the first colon. No check of callback.from_user.
handle_repo_callback(cb) ==
    LET action == split(cb.data, ":")[2]
        key == <<cb.chat, cb.user>>
    IN  /\ StartsWith(cb.data, "repo:")
        /\ IF action = "list" \/ action = "refresh"
           THEN /\ mm_op' = MmOp("show_repositories", "")
                /\ UNCHANGED <<repositories, fsm>>
           ELSE IF action = "add"
           THEN /\ mm_op' = MmOp("add_repository_dialog", "")
                /\ fsm' = [fsm EXCEPT ![key] = "waiting_for_repo_name"]
                /\ UNCHANGED repositories
           ELSE IF StartsWith(action, "toggle_") \/ StartsWith(action, "delete_")
           THEN LET repo_idx == int(split(action, "_")[2])
                IN  /\ IF repo_idx < 0
                       THEN /\ mm_op' = MmOp("ValueError", "")
                            /\ UNCHANGED repositories
                       ELSE IF StartsWith(action, "toggle_")
                       THEN toggle_repository(repo_idx)
                       ELSE delete_repository(repo_idx)
                    /\ UNCHANGED fsm
           ELSE /\ mm_op' = MmOp("unknown", "")
                /\ UNCHANGED <<repositories, fsm>>
        /\ UNCHANGED <<modules_dir, mm_task, mm_result, fsm_data, notCb>>

\* The if/elif chain of handle_module_callback: the method it calls and the
\* module name it passes, for parts = callback.data.split(":").
ModuleOperation(data) ==
    LET parts == split(data, ":")
        action == parts[2]
        named == Len(parts) > 2
        module_name == IF named THEN parts[3] ELSE ""
    IN  IF action = "available" THEN MmOp("show_available_modules", "")
        ELSE IF action = "installed" THEN MmOp("show_installed_modules", "")
        ELSE IF action = "details" /\ named THEN MmOp("show_module_details", module_name)
        ELSE IF action = "toggle" /\ named THEN MmOp("toggle_module_state", module_name)
        ELSE IF action = "settings" /\ named THEN MmOp("show_module_settings", module_name)
        ELSE IF action = "confirm_delete" /\ named
        THEN MmOp("confirm_delete_module", module_name)
        ELSE IF action = "delete" /\ named THEN MmOp("delete_module", module_name)
        ELSE IF action = "install" THEN MmOp("install_menu", "")
        ELSE IF action = "update_all" THEN MmOp("update_all_modules", "")
        ELSE IF StartsWith(action, "install:") /\ named
        THEN MmOp("install_module_callback", module_name)
        ELSE IF StartsWith(action, "update:") /\ named
        THEN MmOp("update_module", module_name)
        ELSE MmOp("unknown", "")

\* handle_module_callback: F.data.startswith("module:"). No check of
\* callback.from_user. toggle_module_state rewrites the manifest.json of an
\* installed module, delete_module removes its directory; the other
\* operations only show something.
handle_module_callback(cb) ==
    LET op == ModuleOperation(cb.data)
        name == op.module_name
    IN  /\ StartsWith(cb.data, "module:")
        /\ mm_op' = op
        /\ IF op.operation = "toggle_module_state" /\ IsInstalled(name)
           THEN modules_dir' = IF Disabled(name) \in modules_dir
                               THEN modules_dir \ {Disabled(name)}
                               ELSE modules_dir \cup {Disabled(name)}
           ELSE IF op.operation = "delete_module" /\ IsInstalled(name)
           THEN modules_dir' = Rmtree(modules_dir, name)
           ELSE UNCHANGED modules_dir
        /\ UNCHANGED <<repositories, fsm, mm_task, mm_result, fsm_data, notCb>>

\* The dispatcher hands a callback query to the first handler whose filter
\* passes.
OnCallback(cb) ==
    \/ handle_repo_callback(cb)
    \/ handle_module_callback(cb)

\* cmd_repos, cmd_modules: for an admin the list is shown.
cmd_show(m, operation) ==
    /\ mm_op' = MmOp(IF m.user \in admin_ids THEN operation ELSE "no_access", "")
    /\ UNCHANGED <<repositories, fsm, fsm_data, modules_dir, mm_result>>

\* cmd_install: an admin is asked for the name of the module.
cmd_install(m) ==
    /\ IF m.user \in admin_ids
       THEN /\ mm_op' = MmOp("cmd_install", "")
            /\ fsm' = [fsm EXCEPT ![FsmKey(m)] = "waiting_for_module_name"]
       ELSE /\ mm_op' = MmOp("no_access", "")
            /\ UNCHANGED fsm
    /\ UNCHANGED <<repositories, fsm_data, modules_dir, mm_result>>

\* process_module_name: the module of that name among the available ones
\* (here: those of a local repository) is installed; state.clear() drops the
\* state and its data.
process_module_name(m, available, src, copy_fails) ==
    LET module_name == strip(m.text)
    IN  /\ fsm' = [fsm EXCEPT ![FsmKey(m)] = "none"]
        /\ fsm_data' = [fsm_data EXCEPT ![FsmKey(m)] = ""]
        /\ IF module_name \notin available
           THEN /\ mm_op' = MmOp("not_found", module_name)
                /\ UNCHANGED <<modules_dir, mm_result>>
           ELSE /\ mm_op' = MmOp("_install_module", module_name)
                /\ IF DirExists(module_name)
                   THEN /\ mm_result' = InstallResult(FALSE, "already_installed",
                                                      module_name)
                        /\ UNCHANGED modules_dir
                   ELSE InstallLocal(module_name, src, copy_fails)
        /\ UNCHANGED repositories

\* process_repo_name: the name is kept in the state data, the URL is asked.
process_repo_name(m) ==
    /\ fsm_data' = [fsm_data EXCEPT ![FsmKey(m)] = strip(m.text)]
    /\ fsm' = [fsm EXCEPT ![FsmKey(m)] = "waiting_for_repo_url"]
    /\ mm_op' = MmOp("process_repo_name", "")
    /\ UNCHANGED <<repositories, modules_dir, mm_result>>

\* process_repo_url: a URL of another scheme is asked again; a URL already
\* in the list is reported; otherwise the repository is appended and the
\* file saved.
process_repo_url(m) ==
    LET repo_url == strip(m.text)
        key == FsmKey(m)
    IN  /\ IF ~(StartsWith(repo_url, "http://") \/ StartsWith(repo_url, "https://")
                \/ StartsWith(repo_url, "file://"))
           THEN /\ mm_op' = MmOp("bad_url", "")
                /\ UNCHANGED <<repositories, fsm, fsm_data>>
           ELSE IF \E i \in 1..Len(repositories) : repositories[i].url = repo_url
           THEN /\ mm_op' = MmOp("url_exists", "")
                /\ fsm' = [fsm EXCEPT ![key] = "none"]
                /\ fsm_data' = [fsm_data EXCEPT ![key] = ""]
                /\ UNCHANGED repositories
           ELSE /\ repositories' = Append(repositories,
                                          [name |-> fsm_data[key], url |-> repo_url,
                                           enabled |-> TRUE])
                /\ fsm' = [fsm EXCEPT ![key] = "none"]
                /\ fsm_data' = [fsm_data EXCEPT ![key] = ""]
                /\ mm_op' = MmOp("repository_added", "")
        /\ UNCHANGED <<modules_dir, mm_result>>

\* The router of the module manager: the three commands, then the three
\* state handlers, in the order they are registered.
ManagerRoute(m) ==
    IF IsCommand(m.text, "repos") THEN "cmd_repos"
    ELSE IF IsCommand(m.text, "modules") THEN "cmd_modules"
    ELSE IF IsCommand(m.text, "install") THEN "cmd_install"
    ELSE IF fsm[FsmKey(m)] = "waiting_for_module_name" THEN "process_module_name"
    ELSE IF fsm[FsmKey(m)] = "waiting_for_repo_name" THEN "process_repo_name"
    ELSE IF fsm[FsmKey(m)] = "waiting_for_repo_url" THEN "process_repo_url"
    ELSE "unhandled"

ManagerOnMessage(m, available, src, copy_fails) ==
    /\ mm_task.pc = "idle"
    /\ LET handler == ManagerRoute(m)
       IN  CASE handler = "cmd_repos" -> cmd_show(m, "show_repositories")
             [] handler = "cmd_modules" -> cmd_show(m, "show_available_modules")
             [] handler = "cmd_install" -> cmd_install(m)
             [] handler = "process_module_name" ->
                    process_module_name(m, available, src, copy_fails)
             [] handler = "process_repo_name" ->
                    /\ m.text # ""
                    /\ process_repo_name(m)
             [] handler = "process_repo_url" ->
                    /\ m.text # ""
                    /\ process_repo_url(m)
             [] OTHER -> FALSE
    /\ UNCHANGED <<mm_task, notCb>>

\* ------------------------- youtube_downloader/module.py and yt/module.py
\* process_download is the same in both modules.
\* ydl.prepare_filename: the title of the page and the extension of the format.
FilePath(url, format_type) == <<url, IF format_type = "audio" THEN "mp3" ELSE "mp4">>

IdleDownload == [pc |-> "idle", url |-> "", format_type |-> ""]
DownloadReply(kind, url) == [kind |-> kind, url |-> url]

\* process_download(message, url, format_type, quality) up to download_file.
process_download(url, format_type) ==
    /\ dl_task.pc = "idle"
    /\ dl_task' = [pc |-> "download", url |-> url, format_type |-> format_type]
    /\ UNCHANGED <<download_dir, dl_reply, notDl>>

\* download_file returns the path of the file it wrote, or raises; the size
\* of the file decides what follows. An exception goes to the except branch,
\* which replies with the error.
DownloadFile(outcome) ==
    /\ dl_task.pc = "download"
    /\ IF outcome = "error"
       THEN /\ dl_reply' = DownloadReply("error", dl_task.url)
            /\ dl_task' = IdleDownload
            /\ UNCHANGED download_dir
       ELSE /\ download_dir' = download_dir \cup {FilePath(dl_task.url, dl_task.format_type)}
            /\ dl_task' = [dl_task EXCEPT !.pc = IF outcome = "over_50_mb"
                                                 THEN "too_big" ELSE "send"]
            /\ UNCHANGED dl_reply
    /\ UNCHANGED notDl

\* file_size > 50: message.reply, then os.remove(file_path); a reply that
\* fails raises before the removal.
ReplyTooBig(sent) ==
    /\ dl_task.pc = "too_big"
    /\ IF sent
       THEN /\ download_dir' = download_dir \ {FilePath(dl_task.url, dl_task.format_type)}
            /\ dl_reply' = DownloadReply("too_big", dl_task.url)
       ELSE /\ dl_reply' = DownloadReply("error", dl_task.url)
            /\ UNCHANGED download_dir
    /\ dl_task' = IdleDownload
    /\ UNCHANGED notDl

\* message.reply_video / reply_audio, then os.remove(file_path); a send that
\* fails raises before the removal and the except branch replies with the
\* error.
SendFile(sent) ==
    /\ dl_task.pc = "send"
    /\ IF sent
       THEN /\ download_dir' = download_dir \ {FilePath(dl_task.url, dl_task.format_type)}
            /\ dl_reply' = DownloadReply("file", dl_task.url)
       ELSE /\ dl_reply' = DownloadReply("error", dl_task.url)
            /\ UNCHANGED download_dir
    /\ dl_task' = IdleDownload
    /\ UNCHANGED notDl

\* ------------------------------------------------------ weather/module.py
WeatherWaiting == {"WeatherStates:main", "WeatherStates:city_input"}

IdleWeather == [pc |-> "idle", message |-> NoMessage, city |-> ""]
WeatherReply(kind, city) == [kind |-> kind, city |-> city]

\* weather_command: the module enabled, the API key, then the welcome menu
\* and the state main; the arguments of the command are not looked at.
weather_command(m) ==
    /\ IF ~w_config.enabled
       THEN /\ w_reply' = WeatherReply("disabled", "")
            /\ UNCHANGED fsm
       ELSE IF w_config.api_key = ""
       THEN /\ w_reply' = WeatherReply("api_key_missing", "")
            /\ fsm' = [fsm EXCEPT ![FsmKey(m)] = "WeatherStates:settings"]
       ELSE /\ w_reply' = WeatherReply("welcome", "")
            /\ fsm' = [fsm EXCEPT ![FsmKey(m)] = "WeatherStates:main"]
    /\ UNCHANGED <<w_config, w_task>>

\* process_weather_message up to get_current_weather: the text is the city.
process_weather_message(m) ==
    /\ w_task' = [pc |-> "fetch", message |-> m, city |-> strip(m.text)]
    /\ w_reply' = WeatherReply("loading", strip(m.text))
    /\ UNCHANGED <<w_config, fsm>>

\* get_current_weather returns, the loading message is edited; the state of
\* the user is left as it is.
WeatherFetched(found) ==
    /\ w_task.pc = "fetch"
    /\ w_reply' = WeatherReply(IF found THEN "current_weather" ELSE "not_found",
                               w_task.city)
    /\ w_task' = IdleWeather
    /\ UNCHANGED <<w_config, fsm, notW>>

\* register_module: weather_command on Command("weather"), then
\* process_weather_message on the states city_input and main.
WeatherRoute(m) ==
    IF IsCommand(m.text, "weather") THEN "weather_command"
    ELSE IF fsm[FsmKey(m)] \in WeatherWaiting THEN "process_weather_message"
    ELSE "unhandled"

WeatherOnMessage(m) ==
    /\ w_task.pc = "idle"
    /\ LET handler == WeatherRoute(m)
       IN  CASE handler = "weather_command" -> weather_command(m)
             [] handler = "process_weather_message" -> process_weather_message(m)
             [] OTHER -> FALSE
    /\ UNCHANGED notW

\* An admin edits the configuration: the module switched on or off, the API
\* key set or removed.
SetWeatherConfig(config) ==
    /\ w_task.pc = "idle"
    /\ w_config' = config
    /\ UNCHANGED <<w_task, w_reply, fsm, notW>>

\* ------------------------------------------------- setup of the modules
SetupModules == {"youtube_downloader", "Sample", "code_analyzer", "gemini_ai"}

SetupEnds(module, outcome) ==
    setup_result' = [setup_result EXCEPT ![module] = outcome]

\* setup of youtube_downloader: the router is included, then the database
\* handle is looked at; without it ValueError is raised, with it the init_db
\* task is created.
setup_youtube_downloader ==
    IF ~kernel_data.dp
    THEN /\ SetupEnds("youtube_downloader", "raised")
         /\ UNCHANGED <<dispatcher, ytVars>>
    ELSE /\ dispatcher' = dispatcher \cup {"youtube_downloader"}
         /\ IF ~kernel_data.db
            THEN /\ SetupEnds("youtube_downloader", "raised")
                 /\ UNCHANGED ytVars
            ELSE /\ SetupEnds("youtube_downloader", "loaded")
                 /\ yt_task' = [yt_task EXCEPT ![0] =
                                    [IdleYt EXCEPT !.pc = "init_check", !.op = "init_db"]]
                 /\ UNCHANGED <<yt_table, youtube_downloader_config, yt_result, yt_reply>>

\* setup of Sample.py: as in youtube_downloader.
setup_Sample ==
    /\ IF ~kernel_data.dp
       THEN /\ SetupEnds("Sample", "raised")
            /\ UNCHANGED dispatcher
       ELSE /\ dispatcher' = dispatcher \cup {"Sample"}
            /\ SetupEnds("Sample", IF kernel_data.db THEN "loaded" ELSE "raised")
    /\ UNCHANGED ytVars

\* setup of code_analyzer: without a dispatcher it returns; otherwise the
\* init_db task is created and the router included. The database handle is
\* not looked at.
setup_code_analyzer ==
    /\ IF ~kernel_data.dp
       THEN /\ SetupEnds("code_analyzer", "returned")
            /\ UNCHANGED dispatcher
       ELSE /\ dispatcher' = dispatcher \cup {"code_analyzer"}
            /\ SetupEnds("code_analyzer", "loaded")
    /\ UNCHANGED ytVars

\* setup of gemini_ai: without cryptography or without a dispatcher it
\* returns; otherwise the init_db task is created and the router included.
\* The database handle is not looked at.
setup_gemini_ai ==
    /\ IF ~kernel_data.cryptography \/ ~kernel_data.dp
       THEN /\ SetupEnds("gemini_ai", "returned")
            /\ UNCHANGED dispatcher
       ELSE /\ dispatcher' = dispatcher \cup {"gemini_ai"}
            /\ SetupEnds("gemini_ai", "loaded")
    /\ UNCHANGED ytVars

\* The loader calls the setup of a module it has not set up yet.
Setup(module) ==
    /\ setup_result[module] = "none"
    /\ CASE module = "youtube_downloader" -> setup_youtube_downloader
         [] module = "Sample" -> setup_Sample
         [] module = "code_analyzer" -> setup_code_analyzer
         [] module = "gemini_ai" -> setup_gemini_ai
    /\ UNCHANGED <<kernel_data, notLoad>>

\* --------------------------------------------------- infosystem/module.py
Loops == {"update_cache", "update_logs_cache"}

\* What psutil may report, in percent.
CpuReadings == {10}
MemoryReadings == {50, 91}
DiskReadings == {50, 96}

\* on_startup creates the two tasks.
on_startup ==
    /\ \A l \in Loops : loop[l] = "not_started"
    /\ loop' = [l \in Loops |-> "refresh"]
    /\ UNCHANGED <<clock, cache, LOGS_CACHE, LOG_FILE, notInfo>>

\* update_cache, from `while True` to the first await: the three metrics are
\* read into the cache.
update_cache_refresh(cpu, memory, disk) ==
    /\ loop["update_cache"] = "refresh"
    /\ cache' = [cpu |-> cpu, memory |-> memory, disk |-> disk]
    /\ loop' = [loop EXCEPT !["update_cache"] =
                    IF memory > 90 THEN "alert_memory"
                    ELSE IF disk > 95 THEN "alert_disk"
                    ELSE "sleep"]
    /\ UNCHANGED <<clock, LOGS_CACHE, LOG_FILE, notInfo>>

\* update_cache awaits send_message to the first admin. Nothing catches what
\* send_message raises: the exception ends the task.
update_cache_alert(sent) ==
    /\ loop["update_cache"] \in {"alert_memory", "alert_disk"}
    /\ loop' = [loop EXCEPT !["update_cache"] =
                    IF ~sent THEN "failed"
                    ELSE IF @ = "alert_memory" /\ cache.disk > 95 THEN "alert_disk"
                    ELSE "sleep"]
    /\ UNCHANGED <<clock, cache, LOGS_CACHE, LOG_FILE, notInfo>>

\* update_logs_cache, one turn of `while True` up to the sleep: a log file
\* that exists is read into LOGS_CACHE. Nothing catches what open or read
\* raises: the exception ends the task.
update_logs_cache_refresh ==
    /\ loop["update_logs_cache"] = "refresh"
    /\ IF ~LOG_FILE.exists
       THEN /\ loop' = [loop EXCEPT !["update_logs_cache"] = "sleep"]
            /\ UNCHANGED LOGS_CACHE
       ELSE IF ~LOG_FILE.readable
       THEN /\ loop' = [loop EXCEPT !["update_logs_cache"] = "failed"]
            /\ UNCHANGED LOGS_CACHE
       ELSE /\ LOGS_CACHE' = [logs |-> LOG_FILE.lines, last_updated |-> clock]
            /\ loop' = [loop EXCEPT !["update_logs_cache"] = "sleep"]
    /\ UNCHANGED <<clock, cache, LOG_FILE, notInfo>>

\* asyncio.sleep returns: the loop starts its next turn.
LoopWake(l) ==
    /\ loop[l] = "sleep"
    /\ loop' = [loop EXCEPT ![l] = "refresh"]
    /\ UNCHANGED <<clock, cache, LOGS_CACHE, LOG_FILE, notInfo>>

\* The log file as the logger and the operating system leave it: absent,
\* empty, with a line, or not readable as UTF-8 text.
LogFiles ==
    {[exists |-> FALSE, readable |-> TRUE, lines |-> <<>>],
     [exists |-> TRUE, readable |-> TRUE, lines |-> <<>>],
     [exists |-> TRUE, readable |-> TRUE, lines |-> <<"INFO started">>],
     [exists |-> TRUE, readable |-> FALSE, lines |-> <<>>]}

WriteLogFile(file) ==
    /\ LOG_FILE # file
    /\ LOG_FILE' = file
    /\ UNCHANGED <<clock, cache, LOGS_CACHE, loop, notInfo>>

\* Who writes to the bot: users 1 and 2 in their private chats and in a group.
Private == {[chat |-> 1, user |-> 1], [chat |-> 2, user |-> 2]}
Group == {[chat |-> -100, user |-> 1], [chat |-> -100, user |-> 2]}
FsmKeys == {<<s.chat, s.user>> : s \in Private \cup Group}

MessagesOf(senders, texts) ==
    {[chat |-> s.chat, user |-> s.user, text |-> x] : s \in senders, x \in texts}

StoredSecret == Encrypt(encryption_key, "AIzaSy-key-0")

\* A key encrypted with another encryption key, and a value that is no token.
ForeignSecret == Encrypt("OTHER_ENCRYPTION_KEY", "AIzaSy-key-0")
CorruptSecret == <<"corrupt", "", "">>

\* The task of setup's asyncio.create_task(init_db(db)), beside the handlers.
YtTasks == {0} \cup Tasks

\* ------------------------------------------------------------------- Init
InitAnalyzer ==
    /\ analysis_history = {}
    /\ an_seq = 0
    /\ an_pc = [t \in Tasks |-> "idle"]
    /\ an_chat = [t \in Tasks |-> 555]
    /\ an_count = [t \in Tasks |-> 0]
    /\ an_user = [t \in Tasks |-> 1]
    /\ an_reply = Reply("none", 0, 1)

\* gemini_ai with `created` of its tables created and a config holding one of
\* `secrets`.
InitGeminiWith(created, secrets, keys) ==
    /\ g_init = created
    /\ gemini_cache = {}
    /\ gemini_conversations = {}
    /\ g_conv_seq = 0
    /\ gemini_settings = {}
    /\ gemini_rate_limit = {}
    /\ secret \in secrets
    /\ fernet \in keys
    /\ g_task = [t \in Tasks |-> IdleTask]
    /\ g_reply = GReply("none", 0)

\* The bot was started with an encryption key.
InitGemini(created, secrets) == InitGeminiWith(created, secrets, {encryption_key})

\* youtube_downloader before its setup has created the init_db task.
InitYtUnloaded ==
    /\ yt_table = FALSE
    /\ youtube_downloader_config = {}
    /\ yt_task = [t \in YtTasks |-> IdleYt]
    /\ yt_result = [op |-> "none", user_id |-> 0, value |-> EmptyDict]
    /\ yt_reply = [kind |-> "none", url |-> "", default_format |-> ""]

InitYt ==
    /\ yt_table = FALSE
    /\ youtube_downloader_config = {}
    /\ yt_task = [t \in YtTasks |->
                     IF t = 0 THEN [IdleYt EXCEPT !.pc = "init_check", !.op = "init_db"]
                     ELSE IdleYt]
    /\ yt_result = [op |-> "none", user_id |-> 0, value |-> EmptyDict]
    /\ yt_reply = [kind |-> "none", url |-> "", default_format |-> ""]

InitSample ==
    /\ sample_table = FALSE
    /\ sample_config = {}
    /\ sample_result = [op |-> "none", user_id |-> 0, value |-> EmptyDict]
    /\ sample_reply = [kind |-> "none", arg |-> ""]

\* No module is installed, no installation is running.
InitModuleManager ==
    /\ modules_dir = {}
    /\ mm_task = IdleInstall
    /\ mm_result = InstallResult(TRUE, "none", "")

\* No repository is configured, no dialog of the manager is open.
InitManager ==
    /\ repositories = <<>>
    /\ mm_op = MmOp("none", "")
    /\ fsm_data = [k \in FsmKeys |-> ""]

\* config.json as init_config writes it; nothing has been selected.
InitSelection ==
    /\ max_quality = "720"
    /\ sel = Pressed(Selection("", "none", "", "", ""), "", "", "")

InitDownload ==
    /\ download_dir = {}
    /\ dl_task = IdleDownload
    /\ dl_reply = DownloadReply("none", "")

\* The weather module enabled, with an API key.
InitWeather ==
    /\ w_config = [enabled |-> TRUE, api_key |-> "owm-key"]
    /\ w_task = IdleWeather
    /\ w_reply = WeatherReply("none", "")

\* Every module has been set up with a full kernel_data.
InitLoaded ==
    /\ kernel_data = [db |-> TRUE, dp |-> TRUE, cryptography |-> TRUE]
    /\ dispatcher = SetupModules
    /\ setup_result = [module \in SetupModules |-> "loaded"]

\* infosystem as imported: empty caches, no log file yet, no loop started.
InitInfo ==
    /\ cache = [cpu |-> 0, memory |-> 0, disk |-> 0]
    /\ LOGS_CACHE = [logs |-> <<>>, last_updated |-> 0]
    /\ LOG_FILE = [exists |-> FALSE, readable |-> TRUE, lines |-> <<>>]
    /\ loop = [l \in Loops |-> "not_started"]

InitMore ==
    /\ InitModuleManager
    /\ InitDownload
    /\ InitWeather
    /\ InitLoaded
    /\ InitInfo
    /\ InitManager
    /\ InitSelection

InitWith(created, secrets) ==
    /\ clock = 0
    /\ fsm = [k \in FsmKeys |-> "none"]
    /\ InitAnalyzer
    /\ InitGemini(created, secrets)
    /\ InitYt
    /\ InitSample
    /\ InitMore

\* The modules have just been set up: no init_db has run yet.
Init == InitWith(0, {NoSecret})

\* The same with an API key in the config.
InitKeyed == InitWith(0, {StoredSecret})

\* gemini_ai's init_db has completed; the config may hold an API key.
InitStarted == InitWith(4, {NoSecret, StoredSecret})

\* gemini_ai's init_db has completed; the bot may have no encryption key, and
\* the config may hold a key it cannot decrypt.
InitDecrypt ==
    /\ clock = 0
    /\ fsm = [k \in FsmKeys |-> "none"]
    /\ InitAnalyzer
    /\ InitGeminiWith(4, {NoSecret, StoredSecret, ForeignSecret, CorruptSecret},
                      {"", encryption_key})
    /\ InitYt
    /\ InitSample
    /\ InitMore

\* The bot starts: no module has been set up yet, and kernel_data may lack
\* the database handle, the dispatcher or the cryptography library.
InitBoot ==
    /\ clock = 0
    /\ fsm = [k \in FsmKeys |-> "none"]
    /\ InitAnalyzer
    /\ InitGemini(0, {NoSecret})
    /\ InitYtUnloaded
    /\ InitSample
    /\ InitModuleManager
    /\ InitDownload
    /\ InitWeather
    /\ InitInfo
    /\ InitManager
    /\ InitSelection
    /\ kernel_data \in [db : BOOLEAN, dp : BOOLEAN, cryptography : BOOLEAN]
    /\ dispatcher = {}
    /\ setup_result = [module \in SetupModules |-> "none"]

\* ------------------------------------------------------------------ specs
\* One /analyze at a time: save_analysis calls run to completion in turn.
NextAnalyzerSeq ==
    \/ clock < MaxClock /\ Tick
    \/ \E chat \in Chats : an_seq < MaxInserts /\ SaveInsert(1, chat)
    \/ SavePrune(1)

SpecAnalyzerSeq == Init /\ [][NextAnalyzerSeq]_vars

\* Handlers of several tasks interleave at every awaited statement.
NextAnalyzer ==
    \/ clock < MaxClock /\ Tick
    \/ \E t \in Tasks, chat \in Chats : an_seq < MaxInserts /\ SaveInsert(t, chat)
    \/ \E t \in Tasks : SavePrune(t)

SpecAnalyzer == Init /\ [][NextAnalyzer]_vars

\* /analyze and /clear_analysis of admins and other users, interleaved.
NextClear ==
    \/ \E t \in Tasks, chat \in Chats : an_seq < MaxClearInserts /\ SaveInsert(t, chat)
    \/ \E t \in Tasks : SavePrune(t)
    \/ \E t \in Tasks, user \in Users, target \in Chats : ClearCount(t, user, target)
    \/ \E t \in Tasks : ClearDelete(t)

SpecClear == Init /\ [][NextClear]_vars

\* Questions in private chats while init_db is still creating the tables.
RateMessages == MessagesOf(Private, {"hello"})
RateResponses == {"200", "400"}

NextRate ==
    \/ clock < MaxRateClock /\ Tick
    \/ GeminiInitDb
    \/ \E t \in Tasks, m \in RateMessages : OnMessage(t, m)
    \/ \E t \in Tasks : HandleMessageRateLimit(t)
    \/ \E t \in Tasks : AskCache(t)
    \/ \E t \in Tasks, response \in RateResponses : AskHttp(t, response)
    \/ \E t \in Tasks : AskStoreCache(t)
    \/ \E t \in Tasks : AskStoreConversation(t)
    \/ \E t \in Tasks : HandleMessageReply(t)

SpecRate == InitKeyed /\ [][NextRate]_vars

\* ask_gemini called again and again, one call at a time, with a question
\* asked before or the next new one.
Question(i) == "question " \o ToString(i)

NextAsk ==
    \/ \E chat \in {1, 2}, i \in 1..MaxQuestions :
           /\ i <= Cardinality(gemini_cache) + 1
           /\ AskCall(1, chat, Question(i))
    \/ AskCache(1)
    \/ AskHttp(1, "200")
    \/ AskStoreCache(1)
    \/ AskStoreConversation(1)
    \/ AskReturn(1)

SpecAsk == InitStarted /\ [][NextAsk]_vars

\* The key dialog: the gemini:set_key button and the messages that follow it.
KeyTexts == {"/cancel", "/cancel@SwiftDevBot", "AIzaSy-key-1", "short", ""}
KeyMessages == MessagesOf(Private \cup Group, KeyTexts)

NextKey ==
    \/ \E k \in FsmKeys : set_key_start(k[1], k[2])
    \/ \E t \in Tasks, m \in KeyMessages : OnMessage(t, m)
    \/ \E t \in Tasks : HandleMessageRateLimit(t)

SpecKey == InitStarted /\ [][NextKey]_vars

\* Keys entered after the gemini:set_key button, one message at a time.
KeyEntryTexts == {"AIzaSy-key-1", " AIzaSy-key-2 ", "/AIzaSy-key-3", " short "}
KeyEntryMessages == MessagesOf(Private \cup Group, KeyEntryTexts)

NextKeyEntry ==
    \/ \E k \in FsmKeys : set_key_start(k[1], k[2])
    \/ \E m \in KeyEntryMessages : OnMessage(1, m)
    \/ HandleMessageRateLimit(1)

SpecKeyEntry == InitStarted /\ [][NextKeyEntry]_vars

\* Modules installed from a local and from a remote repository, and deleted.
Modules ==
    [name : {""} \cup ModuleNames,
     repository_url : {"", "file:///srv/repo", "https://repo.example"}]
Sources ==
    {[exists |-> FALSE, files |-> {}]} \cup {[exists |-> TRUE, files |-> f] : f \in FileSets}
InstallResponses == {"200", "404", "ClientError"}

NextInstall ==
    \/ \E module \in Modules, src \in Sources, copy_fails \in BOOLEAN :
           install_module(module, src, copy_fails)
    \/ \E response \in InstallResponses : InstallResponse(response)
    \/ \E archive \in Sources : InstallExtract(archive)
    \/ \E name \in ModuleNames : delete_module(name)

SpecInstall == Init /\ [][NextInstall]_vars

\* ask_gemini with every response of the endpoint; a started call is run on
\* by the event loop, and every request ends (ClientTimeout(total=30)).
RetryResponses ==
    {"200", "200_no_candidate", "200_bad_json", "400", "404", "429", "500", "503"}
        \cup RequestErrors

NextRetry ==
    \/ \E chat \in {1, 2}, i \in 1..2 : AskCall(1, chat, Question(i))
    \/ AskCache(1)
    \/ \E response \in RetryResponses : AskHttp(1, response)
    \/ AskStoreCache(1)
    \/ AskStoreConversation(1)
    \/ AskReturn(1)

SpecRetry ==
    /\ InitStarted
    /\ [][NextRetry]_vars
    /\ WF_vars(AskCache(1))
    /\ WF_vars(\E response \in RetryResponses : AskHttp(1, response))
    /\ WF_vars(AskStoreCache(1))
    /\ WF_vars(AskStoreConversation(1))
    /\ WF_vars(AskReturn(1))

\* Downloads, one at a time, of two pages as video or audio.
DownloadUrls == {"https://youtu.be/a", "https://youtu.be/b"}
DownloadOutcomes == {"under_50_mb", "over_50_mb", "error"}

NextDownload ==
    \/ \E url \in DownloadUrls, format_type \in {"video", "audio"} :
           process_download(url, format_type)
    \/ \E outcome \in DownloadOutcomes : DownloadFile(outcome)
    \/ \E sent \in BOOLEAN : ReplyTooBig(sent)
    \/ \E sent \in BOOLEAN : SendFile(sent)

SpecDownload == Init /\ [][NextDownload]_vars

\* /weather and city names, from two users in their private chats.
WeatherTexts == {"/weather", "/weather Paris", "Paris", " Oslo "}
WeatherMessages == MessagesOf(Private, WeatherTexts)
WeatherConfigs == [enabled : BOOLEAN, api_key : {"", "owm-key"}]

NextWeather ==
    \/ \E m \in WeatherMessages : WeatherOnMessage(m)
    \/ \E found \in BOOLEAN : WeatherFetched(found)
    \/ \E config \in WeatherConfigs : SetWeatherConfig(config)

SpecWeather == Init /\ [][NextWeather]_vars

\* The loader sets the modules up, in any order; the init_db task of
\* youtube_downloader runs once its setup has created it.
NextSetup ==
    \/ \E module \in SetupModules : Setup(module)
    \/ InitDbCheck(0)
    \/ InitDbCreate(0)

SpecSetup == InitBoot /\ [][NextSetup]_vars

\* The two background loops of infosystem. Every step of a started loop is
\* taken sooner or later: the event loop runs a task that can run.
NextLoops ==
    \/ on_startup
    \/ \E cpu \in CpuReadings, memory \in MemoryReadings, disk \in DiskReadings :
          update_cache_refresh(cpu, memory, disk)
    \/ \E sent \in BOOLEAN : update_cache_alert(sent)
    \/ update_logs_cache_refresh
    \/ \E l \in Loops : LoopWake(l)
    \/ \E file \in LogFiles : WriteLogFile(file)
    \/ clock < MaxClock /\ Tick

SpecLoops ==
    /\ Init
    /\ [][NextLoops]_vars
    /\ WF_vars(on_startup)
    /\ WF_vars(\E cpu \in CpuReadings, memory \in MemoryReadings, disk \in DiskReadings :
                  update_cache_refresh(cpu, memory, disk))
    /\ WF_vars(\E sent \in BOOLEAN : update_cache_alert(sent))
    /\ WF_vars(update_logs_cache_refresh)
    /\ \A l \in Loops : WF_vars(LoopWake(l))

\* The module manager in a group chat: the admin (user 1) and another member
\* (user 2) press the buttons of the manager's messages and write to the bot.
ManagerSenders == Group
ModuleActions ==
    {"details", "toggle", "settings", "confirm_delete", "delete", "install", "update"}
ModulePayloads ==
    {"module:" \o action \o ":" \o name : action \in ModuleActions, name \in {"alpha"}}
        \cup {"module:installed", "module:install"}
RepoPayloads == {"repo:list", "repo:add", "repo:toggle_0", "repo:delete_0"}
Callbacks ==
    {[chat |-> s.chat, user |-> s.user, data |-> d] :
        s \in ManagerSenders, d \in ModulePayloads \cup RepoPayloads}
ManagerTexts == {"/repos", "/install", "alpha", "file:///srv/repo"}
AvailableModules == {"alpha"}
ManagerSources == {[exists |-> TRUE, files |-> {"module.py", "manifest.json"}]}

NextManager ==
    \/ \E cb \in Callbacks : handle_repo_callback(cb)
    \/ \E cb \in Callbacks : handle_module_callback(cb)
    \/ \E m \in MessagesOf(ManagerSenders, ManagerTexts), src \in ManagerSources :
           ManagerOnMessage(m, AvailableModules, src, FALSE)

SpecManager == Init /\ [][NextManager]_vars

\* The buttons of both downloaders pressed by user 1, for a url without and
\* one with an underscore; the admin changes max_quality, the user the
\* defaults.
SelectUrls == {"youtu.be/a", "youtu.be/a_b"}
MaxQualities == {"360", "720", "720p"}
SelectConfigs ==
    {[default_format |-> "video", default_quality |-> "1080"],
     [default_format |-> "audio", default_quality |-> "720"]}
ButtonsOf(module, url) ==
    {FormatButtons(module, url)[b] : b \in {"video", "audio", "default"}}
        \cup {QualityButtons(url)[q] : q \in Qualities}
SelectCallbacks(module) ==
    {[chat |-> 1, user |-> 1, data |-> d] :
        d \in UNION {ButtonsOf(module, url) : url \in SelectUrls}}

NextSelect ==
    \/ \E module \in DownloaderModules :
           \E cb \in SelectCallbacks(module) : process_selection(module, cb)
    \/ \E quality \in MaxQualities : SetMaxQuality(quality)
    \/ \E config \in SelectConfigs : SetUserConfigCall(1, 1, config)
    \/ TableCheck(1)
    \/ \E t \in {0, 1} : InitDbCheck(t)
    \/ \E t \in {0, 1} : InitDbCreate(t)
    \/ Write(1)
    \/ DownloadFile("error")

SpecSelect == Init /\ [][NextSelect]_vars

\* An admin replaces the API key in the private chat while init_db is still
\* creating the tables: the gemini:set_key button (pressed between
\* messages), then texts, each handled to its end.
KeyLeakTexts == {"AIzaSy-key-1", "/cancel", "hi"}
KeyLeakMessages == MessagesOf({[chat |-> 1, user |-> 1]}, KeyLeakTexts)

NextKeyLeak ==
    \/ GeminiInitDb
    \/ g_task[1].pc = "idle" /\ set_key_start(1, 1)
    \/ \E m \in KeyLeakMessages : OnMessage(1, m)
    \/ HandleMessageRateLimit(1)
    \/ AskCache(1)
    \/ \E response \in {"200", "400"} : AskHttp(1, response)
    \/ AskStoreCache(1)
    \/ AskStoreConversation(1)
    \/ HandleMessageReply(1)

SpecKeyLeak == InitKeyed /\ [][NextKeyLeak]_vars

\* ask_gemini under every configuration of the encryption key and the stored
\* secret.
DecryptResponses == {"200", "400"}

NextDecrypt ==
    \/ \E chat \in {1, 2}, i \in 1..2 : AskCall(1, chat, Question(i))
    \/ AskCache(1)
    \/ \E response \in DecryptResponses : AskHttp(1, response)
    \/ AskStoreCache(1)
    \/ AskStoreConversation(1)
    \/ AskReturn(1)

SpecDecrypt == InitDecrypt /\ [][NextDecrypt]_vars

\* Per-user settings written and read back, and /mode; the calls come one at
\* a time, beside the init_db task of setup.
Configs ==
    {[default_format |-> "audio", default_quality |-> "1080"],
     [default_format |-> "audio"], [default_quality |-> "360"]}
ModeTexts == {"/mode", "/mode formal", "/mode  Sarcastic ", "/mode loud"}
ModeMessages == MessagesOf({[chat |-> -100, user |-> 2]}, ModeTexts)

NextReadBack ==
    \/ \E user_id \in Users : GetUserConfigCall(1, user_id)
    \/ \E user_id \in Users, config \in Configs : SetUserConfigCall(1, user_id, config)
    \/ \E t \in {0, 1} : TableCheck(t)
    \/ \E t \in {0, 1} : InitDbCheck(t)
    \/ \E t \in {0, 1} : InitDbCreate(t)
    \/ \E t \in {0, 1} : Select(t)
    \/ \E t \in {0, 1} : Write(t)
    \/ GeminiInitDb
    \/ \E m \in ModeMessages : OnMessage(1, m)

SpecReadBack == Init /\ [][NextReadBack]_vars

\* The config tables of youtube_downloader and of the module template.
RowConfigs == {None, [default_format |-> "audio", default_quality |-> "1080"],
               [default_format |-> "audio"]}
SampleConfigs == {None, [example_user_param |-> "value"]}

NextConfigRows ==
    \/ \E user_id \in Users : GetUserConfigCall(1, user_id)
    \/ \E user_id \in Users, config \in RowConfigs :
           SetUserConfigCall(1, user_id, config)
    \/ \E t \in {0, 1} : TableCheck(t)
    \/ \E t \in {0, 1} : InitDbCheck(t)
    \/ \E t \in {0, 1} : InitDbCreate(t)
    \/ \E t \in {0, 1} : Select(t)
    \/ \E t \in {0, 1} : Write(t)
    \/ SampleInitDb
    \/ \E user_id \in Users : SampleGetUserConfig(user_id)
    \/ \E user_id \in Users, config \in SampleConfigs :
           SampleSetUserConfig(user_id, config)

SpecConfigRows == Init /\ [][NextConfigRows]_vars

\* The /yt dialog and the dialog of the module template.
YtSenders == {[chat |-> 1, user |-> 1], [chat |-> -100, user |-> 2]}
YtTexts ==
    {"/yt", "/yt https://youtu.be/a", "/yt@SwiftDevBot", "/yt https://x.org/yt/a",
     "https://youtu.be/b", " ", ""}
SampleTexts == {"/command_name", "/command_name data", "data", " ", ""}

NextYt ==
    \/ \E m \in MessagesOf(YtSenders, YtTexts) : YtOnMessage(1, m)
    \/ \E t \in {0, 1} : TableCheck(t)
    \/ \E t \in {0, 1} : InitDbCheck(t)
    \/ \E t \in {0, 1} : InitDbCreate(t)
    \/ \E t \in {0, 1} : Select(t)
    \/ \E m \in MessagesOf(YtSenders, SampleTexts) : SampleOnMessage(m)

SpecYt == Init /\ [][NextYt]_vars

\* The clearing commands of code_analyzer and gemini_ai, from admins and
\* from other users, on tables that hold rows.
InitConfigured == InitWith(4, {StoredSecret})
ClearCacheMessages == MessagesOf(Private \cup Group, {"/clearcache"})

NextAdmin ==
    \/ \E chat \in Chats : an_seq < MaxAdminInserts /\ SaveInsert(1, chat)
    \/ SavePrune(1)
    \/ \E user \in Users, target \in Chats : ClearCount(1, user, target)
    \/ ClearDelete(1)
    \/ \E chat \in {1, 2}, i \in 1..MaxAdminInserts :
           g_conv_seq < MaxAdminInserts /\ AskCall(1, chat, Question(i))
    \/ AskCache(1)
    \/ AskHttp(1, "200")
    \/ AskStoreCache(1)
    \/ AskStoreConversation(1)
    \/ AskReturn(1)
    \/ \E m \in ClearCacheMessages : OnMessage(1, m)
    \/ ClearCacheCount(1)
    \/ ClearCacheDeleteCache(1)
    \/ ClearCacheDeleteConversations(1)

SpecAdmin == InitConfigured /\ [][NextAdmin]_vars

\* ------------------------------------------------------------------ claims
Quiet == \A t \in Tasks : an_pc[t] = "idle"

\* C1: in handle_message, with a last_request stored for the chat, a message
\* that arrived less than 5 seconds after it is answered with the wait reply,
\* does not go on to ask_gemini and leaves gemini_rate_limit as it is; a
\* message that arrived 5 seconds or more after it goes on to ask_gemini, and
\* when the handler has replied the chat's last_request is the time the
\* message arrived.
C1_RateLimit ==
    [][\A t \in Tasks :
          LET chat == g_task[t].message.chat
          IN  /\ (/\ g_task[t].pc = "rate_limit"
                  /\ g_task'[t] # g_task[t]
                  /\ RateLimitExists
                  /\ RateRow(chat) # {})
                 => LET last == (CHOOSE r \in RateRow(chat) : TRUE).last_request
                    IN  IF g_task[t].now - last < 5
                        THEN /\ g_reply' = GReply("wait", chat)
                             /\ g_task'[t].pc = "idle"
                             /\ gemini_rate_limit' = gemini_rate_limit
                        ELSE g_task'[t].pc = "ask"
              /\ (/\ g_task[t].pc = "answered"
                  /\ g_task[t].caller = "handle_message"
                  /\ g_task'[t].pc = "idle"
                  /\ RateLimitExists)
                 => /\ {r \in gemini_rate_limit' : r.chat_id = chat}
                           = {[chat_id |-> chat, last_request |-> g_task[t].now]}
                    /\ {r \in gemini_rate_limit' : r.chat_id # chat}
                           = {r \in gemini_rate_limit : r.chat_id # chat}
      ]_vars

\* C1 witness: a message has been answered with the wait reply, and a later
\* one, 5 seconds or more after the stored last_request of its chat, is on
\* its way into ask_gemini.
C1_Witness ==
    /\ g_reply.kind = "wait"
    /\ \E t \in Tasks :
           /\ g_task[t].pc = "ask"
           /\ g_task[t].caller = "handle_message"
           /\ \E r \in RateRow(g_task[t].message.chat) :
                  g_task[t].now - r.last_request >= 5

\* C2: after any number of sequential save_analysis calls, a chat holds at
\* most 10 rows and get_analysis_history returns at most 5 of them, the most
\* recently inserted first (AUTOINCREMENT ids give the order of insertion).
C2_HistoryMostRecentFirst ==
    Quiet => \A chat \in Chats :
        LET history == get_analysis_history(chat)
        IN  /\ Cardinality(RowsOf(chat)) <= 10
            /\ Len(history) <= 5
            /\ \A i \in 1..Len(history) :
                   /\ history[i].chat_id = chat
                   /\ i > 1 => history[i - 1].id > history[i].id

\* C3: gemini_conversations never holds more than 10 rows of one chat.
C3_ConversationsCapped ==
    \A chat \in {1, 2} : Cardinality(ConversationsOf(chat)) <= 10

\* C4: whenever no save_analysis call for a chat is between its INSERT and
\* its pruning DELETE, the chat holds at most 10 rows.
C4_CapWhenNoSaveInFlight ==
    \A chat \in Chats :
        (\A t \in Tasks : ~(an_pc[t] = "save_inserted" /\ an_chat[t] = chat))
            => Cardinality(RowsOf(chat)) <= 10

\* C4 witness: more than 10 rows went into chat 555, every call has
\* completed, and the chat is left with exactly 10.
C4_Witness ==
    /\ Quiet
    /\ an_seq > 10
    /\ Cardinality(RowsOf(555)) = 10
    /\ RowsOf(777) = {}

\* C5: when set_user_config has written a config, what get_user_config
\* selects for that user is the written values (a key the config lacks is
\* written with its default); when /mode <m> with a valid m has stored the
\* mode, the mode of the chat is m, and /mode answers with the mode of the
\* chat.
C5_ReadAfterWrite ==
    [][/\ \A t \in YtTasks, user_id \in Users :
              LET config == yt_task[t].config
              IN  (/\ yt_task[t].pc = "write"
                   /\ yt_task[t].user_id = user_id
                   /\ yt_task'[t].pc = "idle"
                   /\ config # None
                   /\ yt_result'.value = config)
                  => SelectUserConfig(user_id)' =
                         [default_format |->
                              DictGet(config, "default_format", "video"),
                          default_quality |->
                              DictGet(config, "default_quality", "720")]
       /\ \A m \in ModeMessages :
              (SettingsExists /\ OnMessage(1, m)) =>
                  /\ m.text = "/mode formal" => current_mode(m.chat)' = "formal"
                  /\ m.text = "/mode  Sarcastic " => current_mode(m.chat)' = "sarcastic"
                  /\ m.text = "/mode" =>
                         /\ g_reply'.kind = "mode_current"
                         /\ g_reply'.arg = current_mode(m.chat)
                         /\ current_mode(m.chat)' = current_mode(m.chat)
      ]_vars

\* C5 witness: get_user_config has returned a stored config, and /mode has
\* answered with a mode set before.
C5_Witness ==
    /\ yt_result.op = "get_user_config"
    /\ yt_result.value = [default_format |-> "audio", default_quality |-> "1080"]
    /\ g_reply.kind = "mode_current"
    /\ g_reply.arg = "sarcastic"

AtMostOneRowPerUser ==
    \A user_id \in Users :
        /\ Cardinality(ConfigRow(user_id)) <= 1
        /\ Cardinality(SampleRow(user_id)) <= 1

\* C6: a config table never holds two rows of one user_id; when
\* set_user_config(user, None) has run, the user has no row, get_user_config
\* selects the empty config for the user, and the rows of the other users
\* are the same as before.
C6_OneRowPerUser ==
    /\ []AtMostOneRowPerUser
    /\ [][/\ \A t \in YtTasks, user_id \in Users :
                (/\ yt_task[t].pc = "write"
                 /\ yt_task[t].user_id = user_id
                 /\ yt_task'[t].pc = "idle"
                 /\ yt_task[t].config = None
                 /\ yt_result'.value = None)
                => /\ SelectUserConfig(user_id)' = EmptyDict
                   /\ youtube_downloader_config' =
                          {r \in youtube_downloader_config : r.user_id # user_id}
          /\ \A user_id \in Users :
                (sample_table /\ SampleSetUserConfig(user_id, None))
                => sample_config' = {r \in sample_config : r.user_id # user_id}
         ]_vars

\* C6 witness: both users had a row, the row of user 1 has been deleted and
\* the row of user 2 is still there, in both tables.
C6_Witness ==
    /\ yt_result = [op |-> "set_user_config", user_id |-> 1, value |-> None]
    /\ ConfigRow(1) = {}
    /\ ConfigRow(2) # {}
    /\ sample_result = [op |-> "set_user_config", user_id |-> 1, value |-> None]
    /\ SampleRow(1) = {}
    /\ SampleRow(2) # {}

\* C7: /yt with an argument starts the format prompt for that argument and
\* leaves the state of the user as it is; /yt without an argument puts the
\* user in waiting_for_url; a message with text other than blanks from a user
\* in waiting_for_url starts the format prompt for that text; and when the
\* format prompt has been sent the user has no state.
C7_YtDialog ==
    [][\A m \in MessagesOf(YtSenders, YtTexts) :
          /\ (IsCommand(m.text, "yt") /\ YtOnMessage(1, m)) =>
                 IF CommandArgs(m.text) # ""
                 THEN /\ yt_task'[1].op = "process_url"
                      /\ yt_task'[1].url = strip(CommandArgs(m.text))
                      /\ fsm' = fsm
                 ELSE fsm'[FsmKey(m)] = "waiting_for_url"
          /\ (/\ ~IsCommand(m.text, "yt")
              /\ fsm[FsmKey(m)] = "waiting_for_url"
              /\ strip(m.text) # ""
              /\ YtOnMessage(1, m)) =>
                 /\ yt_task'[1].op = "process_url"
                 /\ yt_task'[1].url = strip(m.text)
          /\ (yt_task[1].op = "process_url" /\ yt_task'[1].pc = "idle") =>
                 /\ yt_reply'.kind = "choose_format"
                 /\ yt_reply'.url = yt_task[1].url
                 /\ fsm'[FsmKey(yt_task[1].message)] = "none"
      ]_vars

\* C8: /cancel from a user in waiting_for_api_key leaves the user without a
\* state and the stored key as it is.
C8_CancelLeavesIdle ==
    [][\A m \in KeyMessages :
          (/\ fsm[FsmKey(m)] = "waiting_for_api_key"
           /\ IsCommand(m.text, "cancel")
           /\ \E t \in Tasks : OnMessage(t, m))
          => /\ fsm'[FsmKey(m)] = "none"
             /\ secret' = secret
      ]_vars

\* The rows of every table.
AllTables ==
    <<analysis_history, gemini_cache, gemini_conversations, gemini_settings,
      gemini_rate_limit, youtube_downloader_config, sample_config>>

\* C9: /clear_analysis and /clearcache from a user who is not in admin_ids
\* are answered with the access-denied message and change no row of any
\* table.
C9_NonAdminDenied ==
    [][/\ \A user \in Users \ admin_ids, target \in Chats :
              ClearCount(1, user, target) =>
                  /\ an_reply' = Reply("denied", 0, user)
                  /\ an_pc' = an_pc
                  /\ AllTables' = AllTables
       /\ \A m \in ClearCacheMessages :
              (m.user \notin admin_ids /\ OnMessage(1, m)) =>
                  /\ g_reply' = GReply("denied", m.chat)
                  /\ g_task' = g_task
                  /\ AllTables' = AllTables
      ]_vars

\* C9 witness: both commands have been denied while the tables held rows.
C9_Witness ==
    /\ an_reply.kind = "denied"
    /\ g_reply.kind = "denied"
    /\ analysis_history # {}
    /\ gemini_cache # {}
    /\ gemini_conversations # {}

\* C10: the DELETE of /clear_analysis removes exactly the rows of the target
\* chat, and the count the command reports is the number of rows it removed.
C10_ClearReportsDeletedRows ==
    [][\A t \in Tasks :
          (an_pc[t] = "clear_counted" /\ an_pc'[t] = "idle") =>
              /\ analysis_history' =
                     {r \in analysis_history : r.chat_id # an_chat[t]}
              /\ an_reply'.kind = "deleted"
              /\ an_reply'.count =
                     Cardinality(analysis_history) - Cardinality(analysis_history')
      ]_vars

Undecryptable == fernet = "" \/ secret \in {ForeignSecret, CorruptSecret}

\* C12: with no encryption key, or a stored value the key cannot decrypt,
\* _get_decrypted_key returns None, ask_gemini returns the key-not-configured
\* message from its first step, no request is ever in preparation, and
\* gemini_cache and gemini_conversations are never written.
C12_NoKeyNoRequest ==
    /\ [](Undecryptable =>
             /\ get_decrypted_key = ""
             /\ \A t \in Tasks :
                    /\ g_task[t].pc \notin {"http", "store_cache", "store_conversation"}
                    /\ g_task[t].pc = "answered" => g_task[t].answer = "no_key"
             /\ gemini_cache = {}
             /\ gemini_conversations = {})
    /\ [][\A t \in Tasks :
             (Undecryptable /\ g_task[t].pc = "ask" /\ g_task'[t] # g_task[t])
             => /\ g_task'[t].pc = "answered"
                /\ g_task'[t].answer = "no_key"
                /\ gemini_cache' = gemini_cache
                /\ gemini_conversations' = gemini_conversations
         ]_vars

\* C12 witness: ask_gemini has returned the key-not-configured message with
\* an encryption key present and a corrupted value stored.
C12_Witness ==
    /\ fernet # ""
    /\ secret = CorruptSecret
    /\ g_task[1].pc = "answered"
    /\ g_task[1].answer = "no_key"

\* C13: a message from a user who is not in admin_ids leaves the stored API
\* key as it is, also when that user has pressed the gemini:set_key button
\* before.
C13_KeySetByAdminOnly ==
    [][\A m \in KeyMessages, t \in Tasks :
          (m.user \notin admin_ids /\ OnMessage(t, m)) => secret' = secret
      ]_vars

\* C14: when _install_module returns failure for a module whose directory did
\* not exist before the call, the directory modules/<name> does not exist
\* after the call.
C14_FailedInstallLeavesNoDirectory ==
    [][/\ \A module \in Modules, src \in Sources, copy_fails \in BOOLEAN :
              (/\ module.name # ""
               /\ ~DirExists(module.name)
               /\ install_module(module, src, copy_fails)
               /\ mm_task'.pc = "idle"
               /\ ~mm_result'.ok)
              => ~DirExists(module.name)'
       /\ (mm_task.pc # "idle" /\ mm_task'.pc = "idle" /\ ~mm_result'.ok)
              => <<mm_task.module_name>> \notin modules_dir'
      ]_vars

\* What ask_gemini returns: the formatted answer or one of its fixed messages.
AskAnswers ==
    {"full_answer", "no_key", "not_generated", "bad_response", "bad_request",
     "rate_limited", "server_error", "ai_error", "timed_out", "network_error",
     "internal_error"}

\* C15 as stated: ask_gemini sends at most 2 requests per call, a further
\* request only after status 429, 500 or 503 or a timeout, and every call
\* returns the formatted answer or a fixed failure message.
C15_RetryOnlyAfterStatusOrTimeout ==
    /\ [](\A t \in Tasks : g_task[t].attempt + 1 <= 2)
    /\ [][\A t \in Tasks :
             (g_task[t].pc = "http" /\ g_task'[t].attempt = g_task[t].attempt + 1)
             => g_task'[t].response \in Retryable \cup {"TimeoutError"}
         ]_vars
    /\ \A t \in Tasks :
           (g_task[t].pc = "ask") ~>
               (g_task[t].pc = "answered" /\ g_task[t].answer \in AskAnswers)

\* C15 amended: ask_gemini sends at most 2 requests per call, a further
\* request only after status 429, 500 or 503, a timeout, a network error
\* (aiohttp.ClientError) or another exception raised by the attempt, and
\* every call returns the formatted answer or a fixed failure message.
C15_RetryBounded ==
    /\ [](\A t \in Tasks : g_task[t].attempt + 1 <= 2)
    /\ [][\A t \in Tasks :
             (g_task[t].pc = "http" /\ g_task'[t].attempt = g_task[t].attempt + 1)
             => g_task'[t].response \in
                    Retryable \cup {"TimeoutError", "ClientError", "Exception"}
         ]_vars
    /\ \A t \in Tasks :
           (g_task[t].pc = "ask") ~>
               (g_task[t].pc = "answered" /\ g_task[t].answer \in AskAnswers)

\* C15 witness: the second request of a call has ended with a timeout and
\* the call has its failure message.
C15_Witness ==
    /\ g_task[1].pc = "answered"
    /\ g_task[1].attempt = 1
    /\ g_task[1].response = "TimeoutError"
    /\ g_task[1].answer = "timed_out"

\* C16: when process_download returns after download_file gave it a file,
\* whether the file was sent, was over 50 MB, or could not be sent, the file
\* is no longer in the download directory.
C16_DownloadedFileRemoved ==
    [][(dl_task.pc \in {"too_big", "send"} /\ dl_task'.pc = "idle")
       => FilePath(dl_task.url, dl_task.format_type) \notin download_dir'
      ]_vars

\* C17: /weather with a city argument, the module enabled and an API key
\* configured, leaves the user out of the waiting states and either answers
\* with the current weather of that city or has the request for that city
\* under way.
C17_WeatherInlineCity ==
    [][\A m \in WeatherMessages :
          (/\ w_config.enabled
           /\ w_config.api_key # ""
           /\ IsCommand(m.text, "weather")
           /\ CommandArgs(m.text) # ""
           /\ WeatherOnMessage(m))
          => /\ fsm'[FsmKey(m)] \notin WeatherWaiting
             /\ \/ w_reply' = WeatherReply("current_weather", CommandArgs(m.text))
                \/ w_task'.pc = "fetch" /\ w_task'.city = CommandArgs(m.text)
      ]_vars

\* C18: when kernel_data has no database handle (and lacks nothing else), the
\* setup of a module that uses the database raises, and the router of the
\* module is not in the dispatcher after it.
C18_NoDatabaseNoRouter ==
    [][\A module \in SetupModules :
          (~kernel_data.db /\ kernel_data.dp /\ kernel_data.cryptography /\ Setup(module))
          => /\ setup_result'[module] = "raised"
             /\ module \notin dispatcher'
      ]_vars

\* C19: once on_startup has started them, update_cache and update_logs_cache
\* run for ever: a loop that has done a refresh goes to sleep, and a loop
\* that sleeps does a further refresh, whatever the alert send or the read
\* of the log file gave.
C19_LoopsRunForever ==
    \A l \in Loops :
        /\ (loop[l] = "refresh") ~> (loop[l] = "sleep")
        /\ (loop[l] = "sleep") ~> (loop[l] = "refresh")

\* C20: init_db of youtube_downloader is idempotent under every interleaving
\* of the task started by setup with the lazy init of get_user_config and
\* set_user_config: its CREATE TABLE is only ever executed while the table is
\* missing (on an existing table the statement raises), it creates the
\* table, and it leaves the stored rows as they are.
C20_InitDbIdempotent ==
    [][\A t \in YtTasks :
          InitDbCreate(t)
          => /\ ~yt_table
             /\ yt_table'
             /\ youtube_downloader_config' = youtube_downloader_config
      ]_vars

\* C21: the rate limiter of gemini_ai allows no burst: while the handler of a
\* message is inside ask_gemini, a second message of the same chat that
\* arrived less than 5 seconds after the first does not pass the rate-limit
\* check, the table and a row of the chat being there.
C21_NoBurst ==
    [][\A t \in Tasks, u \in Tasks :
          (/\ t # u
           /\ g_task[u].caller = "handle_message"
           /\ g_task[u].pc \notin {"idle", "rate_limit"}
           /\ g_task[t].pc = "rate_limit"
           /\ g_task[t].message.chat = g_task[u].message.chat
           /\ g_task[t].now - g_task[u].now < rate_limit_seconds
           /\ g_task[u].now - g_task[t].now < rate_limit_seconds
           /\ RateLimitExists
           /\ RateRow(g_task[t].message.chat) # {}
           /\ g_task'[t] # g_task[t])
          => g_task'[t].pc # "ask"
      ]_vars

\* C22: the first message of a chat, one with no row in gemini_rate_limit,
\* passes the rate-limit check of handle_message and goes on to ask_gemini.
C22_FirstRequestPasses ==
    [][\A t \in Tasks :
          (/\ g_task[t].pc = "rate_limit"
           /\ RateRow(g_task[t].message.chat) = {}
           /\ g_task'[t] # g_task[t])
          => g_task'[t].pc = "ask"
      ]_vars

\* C23: for every payload module:<action>:<name> that the module manager
\* puts on a button, handle_module_callback runs the operation the action
\* names, on the module <name>: install starts the installation of the
\* module, update its update.
C23_CallbackRunsNamedOperation ==
    [][\A cb \in Callbacks :
          \A action \in ModuleActions :
              (/\ cb.data = "module:" \o action \o ":alpha"
               /\ handle_module_callback(cb))
              => mm_op' = MmOp(CASE action = "details" -> "show_module_details"
                                 [] action = "toggle" -> "toggle_module_state"
                                 [] action = "settings" -> "show_module_settings"
                                 [] action = "confirm_delete" -> "confirm_delete_module"
                                 [] action = "delete" -> "delete_module"
                                 [] action = "install" -> "install_module_callback"
                                 [] action = "update" -> "update_module",
                               "alpha")
      ]_vars

\* C28: a callback or a message of a user who is not in admin_ids leaves
\* repositories.json and the modules directory as they are.
C28_OnlyAdminsModify ==
    [][/\ \A cb \in Callbacks :
             (cb.user \notin admin_ids /\ OnCallback(cb))
             => /\ repositories' = repositories
                /\ modules_dir' = modules_dir
       /\ \A m \in MessagesOf(ManagerSenders, ManagerTexts), src \in ManagerSources :
             (m.user \notin admin_ids /\ ManagerOnMessage(m, AvailableModules, src, FALSE))
             => /\ repositories' = repositories
                /\ modules_dir' = modules_dir
      ]_vars

\* C24: in both downloaders, for every url (also one with an underscore),
\* pressing a button made for the url makes process_selection perform the
\* action of the button with exactly that url: video shows the quality menu,
\* audio, default and an allowed quality start a download of the url.
C24_ButtonKeepsUrl ==
    \A module \in DownloaderModules, url \in SelectUrls :
        (/\ sel.did.module = module
         /\ sel.data \in ButtonsOf(module, url)
         /\ QualityNum(module, sel.max_quality) >= 0)
        => /\ sel.data = FormatButtons(module, url).video
              => sel.did = Selection(module, "quality_menu", url, "", "")
           /\ sel.data = FormatButtons(module, url).audio
              => sel.did = Selection(module, "download", url, "audio", "")
           /\ sel.data = FormatButtons(module, url).default
              => sel.did.kind = "download" /\ sel.did.url = url
           /\ \A q \in Qualities :
                 (sel.data = QualityButtons(url)[q]
                  /\ int(q) <= QualityNum(module, sel.max_quality))
                 => sel.did = Selection(module, "download", url, "video", q)

\* C27: a video download started by process_selection has a quality not
\* above the max_quality it loaded; a quality button above the ceiling is
\* refused and starts no download; a default quality above the ceiling is
\* lowered to it.
C27_QualityCeiling ==
    LET ceiling == int(rstrip_char(sel.max_quality, "p"))
        video == sel.did.kind = "download" /\ sel.did.format_type = "video"
    IN  /\ video => int(rstrip_char(sel.did.quality, "p")) <= ceiling
        /\ \A q \in Qualities :
              (StartsWith(sel.data, "yt_quality_" \o q \o "_") /\ int(q) > ceiling)
              => sel.did.kind \in {"rejected", "ValueError"}
        /\ (/\ StartsWith(sel.data, "yt_default_")
            /\ video
            /\ int(sel.default_quality) > ceiling)
           => sel.did.quality = sel.max_quality

\* C27 witness: a default quality of 1080 has been lowered to the ceiling
\* 720, and the download with it is running.
C27_Witness ==
    /\ sel.did.kind = "download"
    /\ sel.did.format_type = "video"
    /\ sel.did.quality = "720"
    /\ sel.default_quality = "1080"
    /\ sel.max_quality = "720"
    /\ dl_task.pc = "download"

\* C27 witness of the refusal: the button 1080 pressed under the ceiling 720.
C27_WitnessRefused ==
    /\ sel.did.kind = "rejected"
    /\ sel.did.quality = "1080"
    /\ sel.max_quality = "720"
    /\ dl_task.pc = "idle"

\* C25: when the weather module has processed a city name sent in a waiting
\* state, found or not, the user is out of the waiting states.
C25_WeatherLeavesWaiting ==
    [][\A found \in BOOLEAN :
          WeatherFetched(found) => fsm'[FsmKey(w_task.message)] \notin WeatherWaiting
      ]_vars

\* C26: the text a user sends in a private chat while in waiting_for_api_key
\* goes to the key-entry handler only: it does not become a question of
\* handle_message, no request with it is sent to the AI endpoint, and it is
\* not stored in gemini_cache or gemini_conversations.
C26_KeyTextNotAsked ==
    [][(/\ g_task[1].caller = "handle_message"
        /\ g_task[1].pc \notin {"idle", "rate_limit"}
        /\ fsm[FsmKey(g_task[1].message)] = "waiting_for_api_key")
       => /\ \A response \in {"200", "400"} : ~AskHttp(1, response)
          /\ gemini_cache' = gemini_cache
          /\ gemini_conversations' = gemini_conversations
      ]_vars

\* C29: a set_user_config whose config names only default_format (or only
\* default_quality) leaves the other stored setting of that user unchanged.
C29_PartialConfigKeepsOther ==
    [][\A t \in {0, 1} :
          (/\ yt_task[t].pc = "write"
           /\ yt_task[t].config # None
           /\ Write(t))
          => \A old \in ConfigRow(yt_task[t].user_id), new \in youtube_downloader_config' :
                 new.user_id = old.user_id
                 => /\ "default_quality" \notin DOMAIN yt_task[t].config
                       => new.default_quality = old.default_quality
                    /\ "default_format" \notin DOMAIN yt_task[t].config
                       => new.default_format = old.default_format
      ]_vars

\* C30: gemini_cache and gemini_conversations change only in a call of
\* ask_gemini whose last response is a 200 carrying a candidate, and that
\* call returns the formatted answer; a call that ends with a failure
\* message leaves both tables as they are, and no failure message is ever an
\* answer of gemini_cache.
C30_FailureLeavesTables ==
    /\ [](\A r \in gemini_cache : r.answer = "full_answer")
    /\ [](\A t \in Tasks :
             g_task[t].pc \in {"store_cache", "store_conversation"}
             => g_task[t].response = "200" /\ g_task[t].answer = "full_answer")
    /\ [][(gemini_cache' # gemini_cache \/ gemini_conversations' # gemini_conversations)
          => /\ g_task[1].response = "200"
             /\ g_task[1].pc \in {"store_cache", "store_conversation"}
             /\ g_task'[1].answer = "full_answer"
         ]_vars
    /\ [][\A response \in RetryResponses \ {"200"} :
             AskHttp(1, response)
             => /\ g_task'[1].pc \in {"http", "answered"}
                /\ g_task'[1].answer # "full_answer"
                /\ UNCHANGED <<gemini_cache, gemini_conversations>>
         ]_vars

\* C30 witness: a call has ended with the failure message of a 200 response
\* without a candidate; an earlier answer is in the cache, the failed
\* question is not.
C30_Witness ==
    /\ g_task[1].pc = "answered"
    /\ g_task[1].response = "200_no_candidate"
    /\ g_task[1].answer = "not_generated"
    /\ gemini_cache # {}
    /\ CacheRow(g_task[1].message.text) = {}

====
